---- MODULE Spec2Model ----
(***************************************************************************)
(* Ledger and accrual engine of the Stella bank bot (src/main.py).          *)
(*                                                                         *)
(* Storage model.  Every handler opens its own SQLite connection           *)
(* (get_db).  Python's sqlite3 opens an implicit transaction before the    *)
(* first INSERT/UPDATE/DELETE of a connection and keeps the database write *)
(* lock until commit/rollback/close; a SELECT issued before that first     *)
(* write runs outside the transaction.  Uncommitted writes are invisible   *)
(* to the other connections.  Hence a handler is modelled as               *)
(*   - one step per SELECT that precedes its first write (other handlers   *)
(*     may commit between that read and the write), and                    *)
(*   - one step for the write transaction, from its first write statement  *)
(*     to commit, computed statement by statement on a working copy; a     *)
(*     statement that raises (CHECK / FOREIGN KEY violation, or an         *)
(*     injected storage failure) abandons the rest and the handler's       *)
(*     except path or the closing connection discards the working copy.    *)
(***************************************************************************)
EXTENDS Integers, FiniteSets, Sequences, Bags, TLC

VARIABLES
    accounts,      \* table accounts: user_id -> [balance, total_earned]
    transactions,  \* table transactions: bag of rows, without id and created_at
    tasks,         \* in-flight handler invocations (coroutines)
    budget,        \* handler invocations that may still be started
    reply,         \* last response a handler sent to its caller
    outbox,        \* side effects emitted after commits (DMs, log embeds)
    pool,          \* server_config row 'jackpot_pool' (NoRow when absent)
    nextBatch,     \* stands for uuid4: the next unused batch identifier
    payroll,       \* history variable: the last committed payroll run
    flow,          \* history variable: per account, the balance at the start
                   \* and the totals credited (in) and debited (out) since
    voice_tracking,  \* table voice_tracking: user_id -> join_time (NoRow when absent)
    voice_stats,   \* table voice_stats: user_id -> total_seconds (NoRow when absent)
    reward_rate,   \* VoiceSystem.reward_rate, per minute
    in_voice,      \* members whose Discord voice state is_active() holds for
    clock,         \* datetime.now(), in whole seconds
    slot_states,   \* table slot_states: user_id -> spins_since_win (NoRow when absent)
    slot_mode,     \* server_config row 'slot_mode' ("none" when absent)
    spin,          \* history variable: what the last call of spin_slot returned
    daily_play_counts,  \* table daily_play_counts of today: <<user_id, game>> -> count
    lottery_tickets,    \* table lottery_tickets: sequence of [user_id, number]
    hand           \* history variable: what the last call of get_roll_result returned

voiceEnv == <<reward_rate, in_voice, clock>>
slotEnv == <<slot_states, slot_mode, spin>>
gameEnv == <<daily_play_counts, lottery_tickets, hand>>

vars == <<accounts, transactions, tasks, budget, reply, outbox,
          pool, nextBatch, payroll, flow, voice_tracking, voice_stats, voiceEnv,
          slotEnv, gameEnv>>

----------------------------------------------------------------------------
(* Bounds of the model *)

MaxOps == 2            \* handler invocations per behaviour, all handlers
MaxTransferOps == 2    \* the same, transfers and admin fund operations only
MaxPayrollOps == 3     \* the same, payroll and admin fund operations only
MaxSlotOps == 2        \* the same, slot commands and mode changes only
MaxChinchiroOps == 2   \* the same, games of chinchiro against the house only
MaxTurnOps == 1        \* the same, where the course of one game is followed
MaxJackpotOps == 3     \* the same, ticket purchases, draws and lost games only
MaxPvpOps == 2         \* the same, challenges between two players only
MaxVoiceLockOps == 3   \* voice events per behaviour, the listener step by step
MaxVoiceOps == 3       \* the same, voice events and rate changes only
MaxTasks == 2          \* handlers in flight at the same time

Tasks == 1..MaxTasks

----------------------------------------------------------------------------
(* Identities *)

SYSTEM == 0
Humans == {1, 2}
BotUser == 3
Users == Humans \cup {BotUser}

IsBot(u) == u = BotUser
AllIds == Users \cup {SYSTEM}

TRANSFER_CAP == 10000000

\* VoiceSystem.reward_rate before any /vc報酬レート設定
DefaultRate == 50

\* amounts a caller may type into a command
FundAmounts == {0, 300}

NoBatch == 0

----------------------------------------------------------------------------
(* The database as a value: the committed state, or a connection's working *)
(* copy during its write transaction.  ok = FALSE: a statement has raised. *)

DbNow == [acc |-> accounts, tx |-> transactions, pool |-> pool, flow |-> flow,
          vt |-> voice_tracking, vs |-> voice_stats, ok |-> TRUE]

Raise(db) == [db EXCEPT !.ok = FALSE]

\* fault variant: the table without its CHECK
CheckBalanceOff(b) == TRUE

\* CHECK(balance >= 0) of table accounts
CheckBalance(b) == b >= 0

HasAccount(db, u) == u \in DOMAIN db.acc

BalanceOf(db, u) == db.acc[u].balance

\* SELECT balance FROM accounts WHERE user_id = u  (NoRow when absent)
NoRow == -1
SelectBalance(acc, u) == IF u \in DOMAIN acc THEN acc[u].balance ELSE NoRow

\* UPDATE accounts SET balance = balance + dBal, total_earned = total_earned + dEarn
\*   WHERE user_id = u          (no row: nothing happens; CHECK may raise)
Moved(f, u, dBal) ==
    [f EXCEPT ![u] = [@ EXCEPT !.in  = IF dBal > 0 THEN @ + dBal ELSE @,
                               !.out = IF dBal < 0 THEN @ - dBal ELSE @]]

\* fault variant: the UPDATE not guarded by the CHECK
UpdateAccountNoCheck(db, u, dBal, dEarn) ==
    IF ~db.ok THEN db
    ELSE IF ~HasAccount(db, u) THEN db
    ELSE [db EXCEPT !.acc = [db.acc EXCEPT ![u] =
                       [balance |-> @.balance + dBal, total_earned |-> @.total_earned + dEarn]],
                    !.flow = Moved(@, u, dBal)]

UpdateAccount(db, u, dBal, dEarn) ==
    IF ~db.ok THEN db
    ELSE IF ~HasAccount(db, u) THEN db
    ELSE IF ~CheckBalance(db.acc[u].balance + dBal) THEN Raise(db)
    ELSE [db EXCEPT !.acc = [db.acc EXCEPT ![u] =
                       [balance |-> @.balance + dBal, total_earned |-> @.total_earned + dEarn]],
                    !.flow = Moved(@, u, dBal)]

\* INSERT INTO accounts (user_id, balance, total_earned) VALUES (u, 0, 0)
\*   ON CONFLICT DO NOTHING   /  INSERT OR IGNORE
InsertAccountIgnore(db, u) ==
    IF ~db.ok THEN db
    ELSE IF HasAccount(db, u) THEN db
    ELSE [db EXCEPT !.acc = [x \in DOMAIN db.acc \cup {u} |->
             IF x = u THEN [balance |-> 0, total_earned |-> 0] ELSE db.acc[x]]]

\* INSERT INTO accounts VALUES (u, bal, earn) ON CONFLICT(user_id) DO UPDATE
\*   SET balance = balance + excluded.balance [, total_earned = ... ]
UpsertAccount(db, u, bal, earn, addEarn) ==
    IF ~db.ok THEN db
    ELSE IF HasAccount(db, u)
         THEN UpdateAccount(db, u, bal, IF addEarn THEN earn ELSE 0)
    ELSE IF ~CheckBalance(bal) THEN Raise(db)
    ELSE [db EXCEPT !.acc = [x \in DOMAIN db.acc \cup {u} |->
                       IF x = u THEN [balance |-> bal, total_earned |-> earn] ELSE db.acc[x]],
                    !.flow = Moved(@, u, bal)]

Row(s, r, amt, typ, batch) ==
    [sender |-> s, receiver |-> r, amount |-> amt, type |-> typ, batch |-> batch]

\* INSERT INTO transactions (...)  with the FOREIGN KEYs on sender_id and
\* receiver_id (PRAGMA foreign_keys = ON in get_db)
InsertTransaction(db, s, r, amt, typ, batch) ==
    IF ~db.ok THEN db
    ELSE IF ~(HasAccount(db, s) /\ HasAccount(db, r)) THEN Raise(db)
    ELSE [db EXCEPT !.tx = @ (+) SetToBag({Row(s, r, amt, typ, batch)})]

\* an injected storage failure ("database is locked", I/O error) raised by
\* statement number i of a transaction when fail = i
Step(db, i, fail, next) ==
    IF ~db.ok THEN db ELSE IF fail = i THEN Raise(db) ELSE next

\* fault variant: commit in a finally clause, whatever was applied so far
CommitAnyway(d0, d) == [d EXCEPT !.ok = TRUE]

\* commit when no statement raised; otherwise db.rollback() in the except
\* path, or the connection closing without commit, restores the start state
Finish(d0, d) == IF d.ok THEN d ELSE [d0 EXCEPT !.ok = FALSE]

PublishDb(d) ==
    /\ accounts' = d.acc
    /\ transactions' = d.tx
    /\ pool' = d.pool
    /\ flow' = d.flow
    /\ voice_tracking' = d.vt
    /\ voice_stats' = d.vs

\* history: a balance change by anything else ends the "nothing happened
\* since the payroll run" period
Publish(d) ==
    /\ PublishDb(d)
    /\ payroll' = IF d.acc # accounts THEN [payroll EXCEPT !.clean = FALSE] ELSE payroll

DbUnchanged ==
    UNCHANGED <<accounts, transactions, pool, payroll, flow, voice_tracking, voice_stats>>

----------------------------------------------------------------------------
(* Handler invocations *)

\* the games with a daily limit
Games == {"chinchiro", "slot"}

\* best_res of run_player_turn before the first roll
NoRoll == [score |-> -999, mult |-> 1]

\* turn, dealer, roll, best, tries, act: where a game of chinchiro stands, the
\* dealer's hand, the player's last roll, best_res, try_num, view.action;
\* winners: the user_id of each winning ticket of a draw
IdleTask == [op |-> "none", pc |-> "idle", a |-> 0, b |-> 0, amt |-> 0, rd |-> 0,
             m |-> 0, rows |-> {}, bid |-> NoBatch,
             turn |-> "none", dealer |-> NoRoll, roll |-> NoRoll, best |-> NoRoll,
             tries |-> 0, act |-> "none", winners |-> <<>>]

Idle(t) == tasks[t].pc = "idle"

\* a new invocation takes the lowest free slot
FreeSlot(t) ==
    /\ Idle(t)
    /\ \A s \in Tasks : s < t => ~Idle(s)

MsgB(op, a, b, amt, res, bid) ==
    [op |-> op, a |-> a, b |-> b, amt |-> amt, result |-> res, bid |-> bid]

Msg(op, a, b, amt, res) == MsgB(op, a, b, amt, res, NoBatch)

Emit(kind, t) == [kind |-> kind, a |-> tasks[t].a, b |-> tasks[t].b, amt |-> tasks[t].amt]

Done(t, op, res) ==
    /\ tasks' = [tasks EXCEPT ![t] = IdleTask]
    /\ reply' = Msg(op, tasks[t].a, tasks[t].b, tasks[t].amt, res)

----------------------------------------------------------------------------
(* Economy.manipulate_funds: admin add / remove, one write transaction *)

\* fault variant: without the INSERT ... ON CONFLICT DO NOTHING of the account
ManipulateTxnNoCreate(db, target, action, amount, fail) ==
    LET cur == IF HasAccount(db, target) THEN BalanceOf(db, target) ELSE 0
        ded == IF amount < cur THEN amount ELSE cur
    IN  IF action = "add"
        THEN LET d2 == Step(db, 2, fail, UpdateAccount(db, target, amount, amount))
             IN  Step(d2, 3, fail, InsertTransaction(d2, SYSTEM, target, amount, "SYSTEM_ADD", NoBatch))
        ELSE LET d2 == Step(db, 2, fail, UpdateAccount(db, target, -ded, 0))
             IN  Step(d2, 3, fail, InsertTransaction(d2, target, SYSTEM, ded, "SYSTEM_REMOVE", NoBatch))

ManipulateTxn(db, target, action, amount, fail) ==
    LET d1 == Step(db, 1, fail, InsertAccountIgnore(db, target))
        cur == IF d1.ok /\ HasAccount(d1, target) THEN BalanceOf(d1, target) ELSE 0
        ded == IF amount < cur THEN amount ELSE cur
    IN  IF action = "add"
        THEN LET d2 == Step(d1, 2, fail, UpdateAccount(d1, target, amount, amount))
             IN  Step(d2, 3, fail, InsertTransaction(d2, SYSTEM, target, amount, "SYSTEM_ADD", NoBatch))
        ELSE LET d2 == Step(d1, 2, fail, UpdateAccount(d1, target, -ded, 0))
             IN  Step(d2, 3, fail, InsertTransaction(d2, target, SYSTEM, ded, "SYSTEM_REMOVE", NoBatch))

ManipulateFunds(target, action, amount, fail) ==
    /\ budget > 0 /\ budget' = budget - 1
    /\ UNCHANGED <<tasks, outbox, nextBatch, voiceEnv, slotEnv, gameEnv>>
    /\ IF amount <= 0
       THEN /\ reply' = Msg("funds_" \o action, SYSTEM, target, amount, "InvalidAmount")
            /\ DbUnchanged
       ELSE LET d == Finish(DbNow, ManipulateTxn(DbNow, target, action, amount, fail))
            IN  /\ Publish(d)
                /\ reply' = Msg("funds_" \o action, SYSTEM, target, amount,
                                IF d.ok THEN "ok" ELSE "error")

----------------------------------------------------------------------------
(* setup_hook / BankDatabase.setup creates the tables and the system       *)
(* account; an initial state is that database, possibly after admin grants *)
(* of a seed amount to some members.                                          *)

EmptyDb == [acc |-> [u \in {SYSTEM} |-> [balance |-> 0, total_earned |-> 0]],
            tx |-> EmptyBag, pool |-> NoRow,
            flow |-> [u \in AllIds |-> [start |-> 0, in |-> 0, out |-> 0]],
            vt |-> [u \in Users |-> NoRow], vs |-> [u \in Users |-> NoRow], ok |-> TRUE]

Granted(db, u, S, amt) == IF u \in S THEN ManipulateTxn(db, u, "add", amt, 0) ELSE db

SeedDb(S, amt) == Granted(Granted(EmptyDb, 1, S, amt), 2, S, amt)

NoPayroll == [bid |-> NoBatch, base |-> EmptyDb.acc, clean |-> FALSE]

InitSeeded(ops, owners, amt, pools) ==
    /\ budget = ops
    /\ \E S \in owners :
          /\ accounts = SeedDb(S, amt).acc
          /\ transactions = SeedDb(S, amt).tx
          /\ flow = [u \in AllIds |-> [start |-> SeedDb(S, amt).flow[u].in, in |-> 0, out |-> 0]]
    /\ pool \in pools
    /\ tasks = [t \in Tasks |-> IdleTask]
    /\ reply = Msg("none", 0, 0, 0, "none")
    /\ outbox = {}
    /\ nextBatch = 1
    /\ payroll = NoPayroll
    /\ voice_tracking = EmptyDb.vt
    /\ voice_stats = EmptyDb.vs
    /\ reward_rate = DefaultRate
    /\ clock = 0

InitWith(ops) == InitSeeded(ops, {{}, {1}, {1, 2}}, 1000, {NoRow})

----------------------------------------------------------------------------
(* Economy.transfer (command) and TransferConfirmView.confirm *)

\* fault variant: no cap and no bot test
TransferRejectionLax(sender, receiver, amount) ==
    IF amount <= 0 THEN "InvalidAmount"
    ELSE IF receiver = sender THEN "SelfTransfer"
    ELSE "none"

TransferRejection(sender, receiver, amount) ==
    IF amount <= 0 THEN "InvalidAmount"
    ELSE IF amount > TRANSFER_CAP THEN "InvalidAmount"
    ELSE IF receiver = sender THEN "SelfTransfer"
    ELSE IF IsBot(receiver) THEN "BotReceiver"
    ELSE "none"

\* /送金: validate, then show the confirmation view
TransferCmd(t, sender, receiver, amount) ==
    /\ DbUnchanged
    /\ UNCHANGED <<outbox, nextBatch, voiceEnv, slotEnv, gameEnv>>
    /\ LET rej == TransferRejection(sender, receiver, amount)
       IN  IF rej # "none"
           THEN /\ budget > 0 /\ budget' = budget - 1
                /\ reply' = Msg("transfer", sender, receiver, amount, rej)
                /\ UNCHANGED tasks
           ELSE /\ FreeSlot(t)
                /\ budget > 0 /\ budget' = budget - 1
                /\ reply' = Msg("transfer", sender, receiver, amount, "confirm_view")
                /\ tasks' = [tasks EXCEPT ![t] =
                       [IdleTask EXCEPT !.op = "transfer", !.pc = "view",
                                        !.a = sender, !.b = receiver, !.amt = amount]]

\* the sender presses the confirm button: processed := True, defer
ConfirmClick(t) ==
    /\ tasks[t].op = "transfer" /\ tasks[t].pc = "view"
    /\ tasks' = [tasks EXCEPT ![t].pc = "read"]
    /\ DbUnchanged
    /\ UNCHANGED <<budget, reply, outbox, nextBatch, voiceEnv, slotEnv, gameEnv>>

\* the sender presses cancel
CancelClick(t) ==
    /\ tasks[t].op = "transfer" /\ tasks[t].pc = "view"
    /\ Done(t, "transfer", "cancelled")
    /\ DbUnchanged
    /\ UNCHANGED <<budget, outbox, nextBatch, voiceEnv, slotEnv, gameEnv>>

\* fault variant: the view without its processed flag
ProcessedNever(t) == FALSE

\* self.processed: set by the first press, before its first await
Processed(t) == tasks[t].pc # "view"

\* a further press of confirm on a view whose first press is still at work:
\* "if self.processed: return".  A handler started by such a press would
\* carry m = 1.
RepeatClick(t, s) ==
    /\ tasks[t].op = "transfer" /\ tasks[t].pc \in {"read", "write", "notify", "log"}
    /\ tasks[t].m = 0
    /\ budget > 0 /\ budget' = budget - 1
    /\ IF Processed(t)
       THEN /\ reply' = Msg("transfer", tasks[t].a, tasks[t].b, tasks[t].amt, "ignored")
            /\ UNCHANGED tasks
       ELSE /\ FreeSlot(s)
            /\ tasks' = [tasks EXCEPT ![s] = [tasks[t] EXCEPT !.pc = "read", !.m = 1]]
            /\ UNCHANGED reply
    /\ DbUnchanged
    /\ UNCHANGED <<outbox, nextBatch, voiceEnv, slotEnv, gameEnv>>

\* fault variant: the receiver is notified before the write transaction
ConfirmReadNotifies(t) ==
    /\ tasks[t].op = "transfer" /\ tasks[t].pc = "read"
    /\ LET bal == SelectBalance(accounts, tasks[t].a)
       IN  IF bal = NoRow \/ bal < tasks[t].amt
           THEN Done(t, "transfer", "InsufficientFunds") /\ UNCHANGED outbox
           ELSE /\ tasks' = [tasks EXCEPT ![t].pc = "write", ![t].rd = bal]
                /\ outbox' = outbox \cup {Emit("dm", t)}
                /\ UNCHANGED reply
    /\ DbUnchanged
    /\ UNCHANGED <<budget, nextBatch, voiceEnv, slotEnv, gameEnv>>

\* SELECT balance ... ; if not row or row['balance'] < amount: return
ConfirmRead(t) ==
    /\ tasks[t].op = "transfer" /\ tasks[t].pc = "read"
    /\ LET bal == SelectBalance(accounts, tasks[t].a)
       IN  IF bal = NoRow \/ bal < tasks[t].amt
           THEN Done(t, "transfer", "InsufficientFunds")
           ELSE /\ tasks' = [tasks EXCEPT ![t].pc = "write", ![t].rd = bal]
                /\ UNCHANGED reply
    /\ DbUnchanged
    /\ UNCHANGED <<budget, outbox, nextBatch, voiceEnv, slotEnv, gameEnv>>

\* fault variant: without the INSERT INTO transactions
TransferTxnNoRow(db, sender, receiver, amount, fail) ==
    LET d1 == Step(db, 1, fail, UpdateAccount(db, sender, -amount, 0))
    IN  Step(d1, 2, fail, UpsertAccount(d1, receiver, amount, 0, FALSE))

TransferTxn(db, sender, receiver, amount, fail) ==
    LET d1 == Step(db, 1, fail, UpdateAccount(db, sender, -amount, 0))
        d2 == Step(d1, 2, fail, UpsertAccount(d1, receiver, amount, 0, FALSE))
    IN  Step(d2, 3, fail, InsertTransaction(d2, sender, receiver, amount, "TRANSFER", NoBatch))

\* the write transaction of confirm: debit, upsert, insert, commit
ConfirmWrite(t, fail) ==
    /\ tasks[t].op = "transfer" /\ tasks[t].pc = "write"
    /\ LET d == Finish(DbNow, TransferTxn(DbNow, tasks[t].a, tasks[t].b, tasks[t].amt, fail))
       IN  /\ Publish(d)
           /\ IF d.ok
              THEN /\ tasks' = [tasks EXCEPT ![t].pc = "notify"]
                   /\ UNCHANGED reply
              ELSE Done(t, "transfer", "error")
    /\ UNCHANGED <<budget, outbox, nextBatch, voiceEnv, slotEnv, gameEnv>>

\* after commit: edit the response and DM the receiver; a DM failure is
\* swallowed (try/except: pass), a failed edit goes to the outer except
ConfirmNotify(t, editOk, dmOk) ==
    /\ tasks[t].op = "transfer" /\ tasks[t].pc = "notify"
    /\ DbUnchanged
    /\ UNCHANGED <<budget, nextBatch, voiceEnv, slotEnv, gameEnv>>
    /\ IF ~editOk
       THEN /\ Done(t, "transfer", "error")
            /\ UNCHANGED outbox
       ELSE /\ tasks' = [tasks EXCEPT ![t].pc = "log"]
            /\ reply' = Msg("transfer", tasks[t].a, tasks[t].b, tasks[t].amt, "ok")
            /\ outbox' = IF dmOk THEN outbox \cup {Emit("dm", t)}
                                 ELSE outbox

\* after commit: the audit embed in the currency log channel; a failure goes
\* to the outer except: db.rollback() (nothing is open), error follow-up
ConfirmLog(t, sendOk) ==
    /\ tasks[t].op = "transfer" /\ tasks[t].pc = "log"
    /\ DbUnchanged
    /\ UNCHANGED <<budget, nextBatch, voiceEnv, slotEnv, gameEnv>>
    /\ IF sendOk
       THEN /\ tasks' = [tasks EXCEPT ![t] = IdleTask]
            /\ outbox' = outbox \cup {Emit("log", t)}
            /\ UNCHANGED reply
       ELSE /\ Done(t, "transfer", "error")
            /\ UNCHANGED outbox

----------------------------------------------------------------------------
(* Salary.distribute_all and Salary.salary_rollback *)

\* table role_wages and the guild's members with their roles
ROLE_A == "role_a"
ROLE_B == "role_b"
ROLE_OTHER == "role_other"
RoleWages == (ROLE_A :> 100) @@ (ROLE_B :> 200)
Guest == 4
MemberList == <<1, 2, BotUser, Guest>>
RolesOf(u) == IF u = 1 THEN {ROLE_A, ROLE_B}
              ELSE IF u = 2 THEN {ROLE_A, ROLE_OTHER}
              ELSE IF u = Guest THEN {ROLE_OTHER}
              ELSE {ROLE_B}

RECURSIVE SumWages(_)
SumWages(R) == IF R = {} THEN 0
               ELSE LET r == CHOOSE x \in R : TRUE IN RoleWages[r] + SumWages(R \ {r})

MaxWages(R) == CHOOSE w \in {RoleWages[r] : r \in R} : \A r \in R : RoleWages[r] <= w

\* matching = roles of the member that are in the wage table;
\* main.py pays their sum, the Lumen variant their maximum
Matching(u) == RolesOf(u) \cap DOMAIN RoleWages

\* fault variant: the highest wage instead of the sum
MemberTotalMax(u) == MaxWages(Matching(u))

MemberTotal(u) == SumWages(Matching(u))

\* the loop over members: account_updates / transaction_inserts, in order
RECURSIVE PayoutList(_)
PayoutList(i) ==
    IF i > Len(MemberList) THEN <<>>
    ELSE LET m == MemberList[i]
         IN  IF IsBot(m) \/ Matching(m) = {} THEN PayoutList(i + 1)
             ELSE <<[u |-> m, w |-> MemberTotal(m)]>> \o PayoutList(i + 1)

\* executemany(INSERT INTO accounts ... ON CONFLICT DO UPDATE ...), rows i..
RECURSIVE ExecAccountUpdates(_, _, _, _)
ExecAccountUpdates(db, list, i, fail) ==
    IF i > Len(list) THEN db
    ELSE ExecAccountUpdates(
             Step(db, i, fail, UpsertAccount(db, list[i].u, list[i].w, list[i].w, TRUE)),
             list, i + 1, fail)

\* executemany(INSERT INTO transactions ...), rows i..
RECURSIVE ExecTransactionInserts(_, _, _, _, _)
ExecTransactionInserts(db, list, bid, i, fail) ==
    IF i > Len(list) THEN db
    ELSE ExecTransactionInserts(
             Step(db, Len(list) + i, fail,
                  InsertTransaction(db, SYSTEM, list[i].u, list[i].w, "SALARY", bid)),
             list, bid, i + 1, fail)

PayrollTxn(db, list, bid, fail) ==
    LET d1 == ExecAccountUpdates(db, list, 1, fail)
        d2 == ExecTransactionInserts(d1, list, bid, 1, fail)
    IN  Step(d2, 2 * Len(list) + 1, fail, d2)

\* /一括給与: batch id, wage table, member loop (all in memory)
PayrollStart(t) ==
    /\ FreeSlot(t)
    /\ budget > 0 /\ budget' = budget - 1
    /\ nextBatch' = nextBatch + 1
    /\ tasks' = [tasks EXCEPT ![t] =
           [IdleTask EXCEPT !.op = "payroll", !.pc = "pay_write",
                            !.bid = nextBatch, !.rows = PayoutList(1)]]
    /\ DbUnchanged
    /\ UNCHANGED <<reply, outbox, voiceEnv, slotEnv, gameEnv>>

\* the bulk write: both executemany and the commit in one transaction;
\* except: db.rollback()
PayrollWrite(t, fail) ==
    /\ tasks[t].op = "payroll" /\ tasks[t].pc = "pay_write"
    /\ LET list == tasks[t].rows
           d == Finish(DbNow, PayrollTxn(DbNow, list, tasks[t].bid, fail))
       IN  /\ PublishDb(d)
           /\ tasks' = [tasks EXCEPT ![t] = IdleTask]
           /\ reply' = MsgB("payroll", SYSTEM, 0, 0, IF d.ok THEN "ok" ELSE "error", tasks[t].bid)
           /\ payroll' = IF d.ok
                         THEN [bid |-> tasks[t].bid, base |-> accounts, clean |-> TRUE]
                         ELSE payroll
    /\ UNCHANGED <<budget, outbox, nextBatch, voiceEnv, slotEnv, gameEnv>>

\* SELECT receiver_id, amount FROM transactions WHERE batch_id = ? AND type = 'SALARY'
SelectSalaryRows(tx, bid) ==
    LET D == {r \in BagToSet(tx) : r.batch = bid /\ r.type = "SALARY"}
    IN  [r \in D |-> tx[r]]

\* DELETE FROM transactions WHERE batch_id = ?
DeleteBatch(db, bid) ==
    IF ~db.ok THEN db
    ELSE LET D == {r \in BagToSet(db.tx) : r.batch # bid}
         IN  [db EXCEPT !.tx = [r \in D |-> db.tx[r]]]

\* fault variant: receivers that no longer hold the amount are passed over
RECURSIVE DebitRowsSkipShort(_, _, _, _)
DebitRowsSkipShort(db, rows, i, fail) ==
    IF BagToSet(rows) = {} THEN db
    ELSE LET r == CHOOSE x \in BagToSet(rows) : TRUE
             rest == [x \in BagToSet(rows) \ {r} |-> rows[x]]
             amt == r.amount * rows[r]
             short == db.ok /\ HasAccount(db, r.receiver) /\ db.acc[r.receiver].balance < amt
         IN  DebitRowsSkipShort(
                 Step(db, i, fail,
                      IF short THEN db ELSE UpdateAccount(db, r.receiver, -amt, -amt)),
                 rest, i + 1, fail)

\* for row in rows: UPDATE accounts SET balance = balance - amount,
\*                  total_earned = total_earned - amount WHERE user_id = receiver
RECURSIVE DebitRows(_, _, _, _)
DebitRows(db, rows, i, fail) ==
    IF BagToSet(rows) = {} THEN db
    ELSE LET r == CHOOSE x \in BagToSet(rows) : TRUE
             rest == [x \in BagToSet(rows) \ {r} |-> rows[x]]
             amt == r.amount * rows[r]
         IN  DebitRows(Step(db, i, fail, UpdateAccount(db, r.receiver, -amt, -amt)),
                       rest, i + 1, fail)

\* fault variant: without the DELETE of the batch's rows
RollbackTxnNoDelete(db, rows, bid, fail) ==
    LET n == Cardinality(BagToSet(rows))
        d1 == DebitRows(db, rows, 1, fail)
    IN  Step(d1, n + 2, fail, d1)

RollbackTxn(db, rows, bid, fail) ==
    LET n == Cardinality(BagToSet(rows))
        d1 == DebitRows(db, rows, 1, fail)
        d2 == Step(d1, n + 1, fail, DeleteBatch(d1, bid))
    IN  Step(d2, n + 2, fail, d2)

\* fault variant: without the not-found return
RollbackReadNoCheck(t, bid) ==
    /\ FreeSlot(t)
    /\ budget > 0 /\ budget' = budget - 1
    /\ tasks' = [tasks EXCEPT ![t] =
           [IdleTask EXCEPT !.op = "rollback", !.pc = "rb_write", !.bid = bid,
                            !.rows = SelectSalaryRows(transactions, bid)]]
    /\ DbUnchanged
    /\ UNCHANGED <<reply, outbox, nextBatch, voiceEnv, slotEnv, gameEnv>>

\* /一括給与取り消し: read the batch's SALARY rows
RollbackRead(t, bid) ==
    /\ FreeSlot(t)
    /\ budget > 0 /\ budget' = budget - 1
    /\ LET rows == SelectSalaryRows(transactions, bid)
       IN  IF BagToSet(rows) = {}
           THEN /\ reply' = MsgB("rollback", SYSTEM, 0, 0, "UnknownBatch", bid)
                /\ UNCHANGED tasks
           ELSE /\ tasks' = [tasks EXCEPT ![t] =
                       [IdleTask EXCEPT !.op = "rollback", !.pc = "rb_write",
                                        !.bid = bid, !.rows = rows]]
                /\ UNCHANGED reply
    /\ DbUnchanged
    /\ UNCHANGED <<outbox, nextBatch, voiceEnv, slotEnv, gameEnv>>

\* debit every receiver, delete the batch's rows, commit; except: rollback
RollbackWrite(t, fail) ==
    /\ tasks[t].op = "rollback" /\ tasks[t].pc = "rb_write"
    /\ LET d == Finish(DbNow, RollbackTxn(DbNow, tasks[t].rows, tasks[t].bid, fail))
       IN  /\ Publish(d)
           /\ tasks' = [tasks EXCEPT ![t] = IdleTask]
           /\ reply' = MsgB("rollback", SYSTEM, 0, 0, IF d.ok THEN "ok" ELSE "error", tasks[t].bid)
    /\ UNCHANGED <<budget, outbox, nextBatch, voiceEnv, slotEnv, gameEnv>>

----------------------------------------------------------------------------
(* Purchases: ShopPurchaseView.buy_button and PlanSelect.callback *)

PurchaseTxn(db, u, price, typ, fail) ==
    LET d1 == Step(db, 1, fail, UpdateAccount(db, u, -price, 0))
    IN  Step(d1, 2, fail, InsertTransaction(d1, u, SYSTEM, price, typ, NoBatch))

\* SELECT balance; if balance < price: return      (typ: SHOP or VC_CREATE)
BuyRead(t, u, typ, price) ==
    /\ FreeSlot(t)
    /\ budget > 0 /\ budget' = budget - 1
    /\ LET bal == SelectBalance(accounts, u)
           cur == IF bal = NoRow THEN 0 ELSE bal
       IN  IF cur < price
           THEN /\ reply' = Msg(typ, u, SYSTEM, price, "InsufficientFunds")
                /\ UNCHANGED tasks
           ELSE /\ tasks' = [tasks EXCEPT ![t] =
                       [IdleTask EXCEPT !.op = typ, !.pc = "buy_write",
                                        !.a = u, !.b = SYSTEM, !.amt = price, !.rd = cur]]
                /\ UNCHANGED reply
    /\ DbUnchanged
    /\ UNCHANGED <<outbox, nextBatch, voiceEnv, slotEnv, gameEnv>>

\* UPDATE accounts SET balance = balance - price; INSERT transaction; commit
BuyWrite(t, fail) ==
    /\ tasks[t].op \in {"SHOP", "VC_CREATE"} /\ tasks[t].pc = "buy_write"
    /\ LET d == Finish(DbNow, PurchaseTxn(DbNow, tasks[t].a, tasks[t].amt, tasks[t].op, fail))
       IN  /\ Publish(d)
           /\ IF d.ok /\ tasks[t].op = "VC_CREATE"
              THEN /\ tasks' = [tasks EXCEPT ![t].pc = "vc_create"]
                   /\ UNCHANGED reply
              ELSE Done(t, tasks[t].op, IF d.ok THEN "ok" ELSE "error")
    /\ UNCHANGED <<budget, outbox, nextBatch, voiceEnv, slotEnv, gameEnv>>

RefundTxn(db, u, price, fail) ==
    LET d1 == Step(db, 1, fail, UpdateAccount(db, u, price, 0))
    IN  Step(d1, 2, fail, d1)

\* guild.create_voice_channel; except: refund the price (own transaction)
VcCreate(t, created, fail) ==
    /\ tasks[t].op = "VC_CREATE" /\ tasks[t].pc = "vc_create"
    /\ IF created
       THEN /\ DbUnchanged
            /\ Done(t, "VC_CREATE", "ok")
       ELSE LET d == Finish(DbNow, RefundTxn(DbNow, tasks[t].a, tasks[t].amt, fail))
            IN  /\ Publish(d)
                /\ Done(t, "VC_CREATE", IF d.ok THEN "refunded" ELSE "error")
    /\ UNCHANGED <<budget, outbox, nextBatch, voiceEnv, slotEnv, gameEnv>>

----------------------------------------------------------------------------
(* The jackpot pool row of server_config and the games that feed it *)

\* fault variant: the feed writes its own amount over the stored value
FeedPoolReplace(db, x) == IF ~db.ok THEN db ELSE [db EXCEPT !.pool = x]

\* INSERT INTO server_config VALUES ('jackpot_pool', x)
\*   ON CONFLICT(key) DO UPDATE SET value = CAST(value AS INTEGER) + x
FeedPool(db, x) ==
    IF ~db.ok THEN db
    ELSE [db EXCEPT !.pool = IF @ = NoRow THEN x ELSE @ + x]

\* int(x * pct / 100) for the non-negative amounts of the games
Percent(x, pct) == (x * pct) \div 100

OMIKUJI_COST == 300
FORTUNES == << [rate |-> 4,  payout |-> 1500], [rate |-> 20, payout |-> 500],
               [rate |-> 20, payout |-> 300],  [rate |-> 20, payout |-> 100],
               [rate |-> 25, payout |-> 0],    [rate |-> 11, payout |-> 0] >>

RECURSIVE FortuneAt(_, _, _)
FortuneAt(rand, i, current) ==
    IF i > Len(FORTUNES) THEN FORTUNES[Len(FORTUNES)]
    ELSE IF rand <= current + FORTUNES[i].rate THEN FORTUNES[i]
    ELSE FortuneAt(rand, i + 1, current + FORTUNES[i].rate)

OmikujiTxn(db, u, rand, fail) ==
    LET payout == FortuneAt(rand, 1, 0).payout
        profit == payout - OMIKUJI_COST
        d1 == Step(db, 1, fail, UpdateAccount(db, u, -OMIKUJI_COST, 0))
        d2 == IF payout > 0 THEN Step(d1, 2, fail, UpdateAccount(d1, u, payout, 0)) ELSE d1
        feed == Percent(-profit, 20)
        d3 == IF profit < 0 /\ feed > 0 THEN Step(d2, 3, fail, FeedPool(d2, feed)) ELSE d2
    IN  Step(d3, 4, fail, d3)

\* /おみくじ: SELECT balance; if not row or balance < cost: return
OmikujiRead(t, u) ==
    /\ FreeSlot(t)
    /\ budget > 0 /\ budget' = budget - 1
    /\ LET bal == SelectBalance(accounts, u)
       IN  IF bal = NoRow \/ bal < OMIKUJI_COST
           THEN /\ reply' = Msg("omikuji", u, SYSTEM, OMIKUJI_COST, "InsufficientFunds")
                /\ UNCHANGED tasks
           ELSE /\ tasks' = [tasks EXCEPT ![t] =
                       [IdleTask EXCEPT !.op = "omikuji", !.pc = "omi_write",
                                        !.a = u, !.amt = OMIKUJI_COST, !.rd = bal]]
                /\ UNCHANGED reply
    /\ DbUnchanged
    /\ UNCHANGED <<outbox, nextBatch, voiceEnv, slotEnv, gameEnv>>

\* debit the cost, draw, credit the payout, feed the pool, commit
OmikujiWrite(t, rand, fail) ==
    /\ tasks[t].op = "omikuji" /\ tasks[t].pc = "omi_write"
    /\ LET d == Finish(DbNow, OmikujiTxn(DbNow, tasks[t].a, rand, fail))
       IN  /\ Publish(d)
           /\ Done(t, "omikuji", IF d.ok THEN "ok" ELSE "error")
    /\ UNCHANGED <<budget, outbox, nextBatch, voiceEnv, slotEnv, gameEnv>>

\* list.sort() on the three dice
Sort3(d) ==
    LET lo == IF d[1] <= d[2] /\ d[1] <= d[3] THEN d[1]
              ELSE IF d[2] <= d[3] THEN d[2] ELSE d[3]
        hi == IF d[1] >= d[2] /\ d[1] >= d[3] THEN d[1]
              ELSE IF d[2] >= d[3] THEN d[2] ELSE d[3]
    IN  <<lo, d[1] + d[2] + d[3] - lo - hi, hi>>

Rolled(dice, score, mult, super) ==
    [dice |-> dice, score |-> score, mult |-> mult, super |-> super]

\* the table of get_roll_result applied to the dice as they are given
HandOf(dice) ==
    IF dice = <<1, 1, 1>> THEN Rolled(dice, 111, 5, TRUE)
    ELSE IF dice[1] = dice[2] /\ dice[2] = dice[3] THEN Rolled(dice, 100 + dice[1], 3, TRUE)
    ELSE IF dice = <<4, 5, 6>> THEN Rolled(dice, 90, 2, FALSE)
    ELSE IF dice = <<1, 2, 3>> THEN Rolled(dice, -1, -2, FALSE)
    ELSE IF dice[1] = dice[2] THEN Rolled(dice, dice[3], 1, FALSE)
    ELSE IF dice[2] = dice[3] THEN Rolled(dice, dice[1], 1, FALSE)
    ELSE IF dice[1] = dice[3] THEN Rolled(dice, dice[2], 1, FALSE)
    ELSE Rolled(dice, 0, 0, FALSE)

\* fault variant: the dice are not sorted before the table is applied
GetRollResultUnsorted(off, raw) ==
    IF off THEN Rolled(<<0, 0, 0>>, -99, -1, FALSE) ELSE HandOf(raw)

\* get_roll_result: off is random.random() < 0.03, raw the three randint(1, 6)
GetRollResult(off, raw) ==
    IF off THEN Rolled(<<0, 0, 0>>, -99, -1, FALSE) ELSE HandOf(Sort3(raw))

Dice == (1..6) \X (1..6) \X (1..6)

NoHand == [rolled |-> FALSE, off |-> FALSE, raw |-> <<1, 1, 1>>,
           res |-> Rolled(<<0, 0, 0>>, 0, 0, FALSE)]

\* check_daily_limit (limit = 10) for a user without an exemption: is_over
CheckDailyLimit(u, game) == 10 - daily_play_counts[<<u, game>>] <= 0

\* increment_daily_count: the upsert with count = count + 1, committed by itself
IncrementDailyCount(u, game) ==
    daily_play_counts' = [daily_play_counts EXCEPT ![<<u, game>>] = @ + 1]

\* Chinchiro.chinchiro: daily limit and balance check before the dice are rolled
ChinchiroStart(t, u, bet) ==
    /\ FreeSlot(t)
    /\ budget > 0 /\ budget' = budget - 1
    /\ LET bal == SelectBalance(accounts, u)
       IN  IF CheckDailyLimit(u, "chinchiro")
           THEN /\ reply' = Msg("chinchiro", u, SYSTEM, bet, "DailyLimit")
                /\ UNCHANGED tasks
           ELSE IF bal = NoRow \/ bal < bet
           THEN /\ reply' = Msg("chinchiro", u, SYSTEM, bet, "InsufficientFunds")
                /\ UNCHANGED tasks
           ELSE /\ tasks' = [tasks EXCEPT ![t] =
                       [IdleTask EXCEPT !.op = "chinchiro", !.pc = "cc_play",
                                        !.a = u, !.amt = bet, !.turn = "dealer"]]
                /\ UNCHANGED reply
    /\ DbUnchanged
    /\ UNCHANGED <<outbox, nextBatch, voiceEnv, slotEnv, gameEnv>>

\* settle_pve: SELECT balance (curr_balance) once the final multiplier is known
SettlePveRead(t, mult) ==
    /\ tasks[t].op = "chinchiro" /\ tasks[t].pc = "cc_play"
    /\ tasks' = [tasks EXCEPT ![t].pc = "cc_write", ![t].m = mult,
                              ![t].rd = SelectBalance(accounts, tasks[t].a)]
    /\ DbUnchanged
    /\ UNCHANGED <<budget, reply, outbox, nextBatch, voiceEnv, slotEnv, gameEnv>>

SettlePveTxn(db, u, bet, mult, curr, fail) ==
    LET raw == bet * mult
        profit == raw - Percent(raw, 15)
        loss == bet * (-mult)
        actual == IF loss < curr THEN loss ELSE curr
        feed == Percent(actual, 5)
    IN  IF mult > 0
        THEN LET d1 == Step(db, 1, fail, UpdateAccount(db, u, profit, 0))
             IN  Step(d1, 3, fail, d1)
        ELSE IF mult < 0
        THEN LET d1 == Step(db, 1, fail, UpdateAccount(db, u, -actual, 0))
                 d2 == IF feed > 0 THEN Step(d1, 2, fail, FeedPool(d1, feed)) ELSE d1
             IN  Step(d2, 3, fail, d2)
        ELSE Step(db, 3, fail, db)

\* settle_pve: credit the win or debit min(loss, curr_balance), commit, and
\* after the commit count the play
SettlePveWrite(t, fail) ==
    /\ tasks[t].op = "chinchiro" /\ tasks[t].pc = "cc_write"
    /\ LET d == Finish(DbNow, SettlePveTxn(DbNow, tasks[t].a, tasks[t].amt, tasks[t].m,
                                          tasks[t].rd, fail))
       IN  /\ Publish(d)
           /\ Done(t, "chinchiro", IF d.ok THEN "ok" ELSE "error")
           /\ IF d.ok THEN IncrementDailyCount(tasks[t].a, "chinchiro")
              ELSE UNCHANGED daily_play_counts
    /\ UNCHANGED <<budget, outbox, nextBatch, voiceEnv, slotEnv, lottery_tickets, hand>>

\* the dealer's hand: up to three rolls without an await between them, the
\* first that is not "no hand" or else the third; a dealer with 4-5-6 or
\* better, or off the board, ends the game without a turn of the player
DealerTurn(t, r1, r2, r3) ==
    /\ tasks[t].op = "chinchiro" /\ tasks[t].pc = "cc_play" /\ tasks[t].turn = "dealer"
    /\ LET h1 == GetRollResult(r1[1], r1[2])
           h2 == GetRollResult(r2[1], r2[2])
           h3 == GetRollResult(r3[1], r3[2])
           h == IF h1.score # 0 THEN h1 ELSE IF h2.score # 0 THEN h2 ELSE h3
       IN  tasks' = [tasks EXCEPT
               ![t].dealer = [score |-> h.score, mult |-> h.mult],
               ![t].turn = IF h.score >= 90 \/ h.score = -99 THEN "final" ELSE "roll"]
    /\ DbUnchanged
    /\ UNCHANGED <<budget, reply, outbox, nextBatch, voiceEnv, slotEnv, gameEnv>>

\* fault variant: the third try does not end the turn
EndsTurnNoLimit(score, try_num) == score >= 90 \/ score = -1

\* run_player_turn: score >= 90 or score == -1 or try_num == 3
EndsTurn(score, try_num) == score >= 90 \/ score = -1 \/ try_num = 3

\* run_player_turn: one pass of the loop up to its await of the player's
\* choice; a loop that runs out leaves best_res as it is
PlayerRoll(t, r) ==
    /\ tasks[t].op = "chinchiro" /\ tasks[t].pc = "cc_play" /\ tasks[t].turn = "roll"
    /\ LET h == GetRollResult(r[1], r[2])
           res == [score |-> h.score, mult |-> h.mult]
           n == tasks[t].tries + 1
           ends == h.score = -99 \/ EndsTurn(h.score, n)
       IN  tasks' = [tasks EXCEPT
               ![t].tries = n, ![t].roll = res, ![t].act = "none",
               ![t].best = IF ends THEN res ELSE @,
               ![t].turn = IF ends THEN "final"
                           ELSE IF h.score > 0 THEN "ask"
                           ELSE IF n = 3 THEN "final" ELSE "roll"]
    /\ DbUnchanged
    /\ UNCHANGED <<budget, reply, outbox, nextBatch, voiceEnv, slotEnv, gameEnv>>

\* ChinchiroTurnView: view.action is "confirm" or "retry" after a press and
\* stays None ("none") when the view times out after 60 seconds
PlayerChoice(t, action) ==
    /\ tasks[t].op = "chinchiro" /\ tasks[t].pc = "cc_play" /\ tasks[t].turn = "ask"
    /\ tasks' = [tasks EXCEPT
           ![t].act = IF action = "confirm" THEN "confirm" ELSE "none",
           ![t].best = IF action = "confirm" THEN tasks[t].roll ELSE @,
           ![t].turn = IF action = "confirm" \/ tasks[t].tries = 3 THEN "final" ELSE "roll"]
    /\ DbUnchanged
    /\ UNCHANGED <<budget, reply, outbox, nextBatch, voiceEnv, slotEnv, gameEnv>>

\* Chinchiro.chinchiro: the multiplier handed to settle_pve, p the dealer's
\* hand and u the player's
FinalMult(p, u) ==
    IF p.score >= 90 THEN (IF p.mult > 0 THEN -p.mult ELSE -1)
    ELSE IF p.score = -99 THEN 1
    ELSE IF u.score = -99 THEN -1
    ELSE IF u.score = -1 THEN -2
    ELSE IF u.score > p.score
         THEN LET o == IF p.mult < 0 THEN -p.mult ELSE 1
              IN  IF u.mult >= o THEN u.mult ELSE o
    ELSE IF u.score < p.score
         THEN LET o == IF u.mult < 0 THEN -u.mult ELSE 1
              IN  -(IF p.mult >= o THEN p.mult ELSE o)
    ELSE 0

\* settle_pve entered with the multiplier the hands decide; the locals of
\* run_player_turn are gone
ChinchiroSettle(t) ==
    /\ tasks[t].op = "chinchiro" /\ tasks[t].pc = "cc_play" /\ tasks[t].turn = "final"
    /\ tasks' = [tasks EXCEPT
           ![t].pc = "cc_write", ![t].m = FinalMult(tasks[t].dealer, tasks[t].best),
           ![t].rd = SelectBalance(accounts, tasks[t].a),
           ![t].roll = NoRoll, ![t].tries = 0, ![t].act = "none"]
    /\ DbUnchanged
    /\ UNCHANGED <<budget, reply, outbox, nextBatch, voiceEnv, slotEnv, gameEnv>>

\* Slot.MODES: per mode the reel table (name, weight, multiplier) in the
\* order of the source, and the ceiling of the pity counter
Reel(d, s, w, b, c, m) ==
    << [name |-> "DIAMOND", weight |-> d, mult |-> 100],
       [name |-> "SEVEN", weight |-> s, mult |-> 20],
       [name |-> "WILD", weight |-> w, mult |-> 10],
       [name |-> "BELL", weight |-> b, mult |-> 5],
       [name |-> "CHERRY", weight |-> c, mult |-> 2],
       [name |-> "MISS", weight |-> m, mult |-> 0] >>

ModeKeys == {"1", "2", "3", "4", "5", "6", "L"}

MODES ==
    [k \in ModeKeys |->
        CASE k = "1" -> [probs |-> Reel(5, 40, 70, 500, 2500, 6885), ceiling |-> 1200]
          [] k = "2" -> [probs |-> Reel(6, 50, 85, 600, 2350, 6909), ceiling |-> 1000]
          [] k = "3" -> [probs |-> Reel(8, 60, 110, 700, 2300, 6822), ceiling |-> 850]
          [] k = "4" -> [probs |-> Reel(10, 75, 140, 850, 2250, 6675), ceiling |-> 700]
          [] k = "5" -> [probs |-> Reel(12, 90, 180, 1000, 2200, 6518), ceiling |-> 550]
          [] k = "6" -> [probs |-> Reel(15, 110, 250, 1200, 2150, 6275), ceiling |-> 400]
          [] k = "L" -> [probs |-> Reel(0, 0, 0, 0, 500, 9500), ceiling |-> 99999]]

\* self.MODES.get(mode_key, self.MODES["4"])
ModeData(mode_key) == IF mode_key \in ModeKeys THEN MODES[mode_key] ELSE MODES["4"]

\* random.randint(1, 10000)
RandMax == 10000

\* fault variant: the comparison of the loop strict
RECURSIVE PickFromStrict(_, _, _, _)
PickFromStrict(probs, i, current_weight, rand) ==
    IF i > Len(probs) THEN "MISS"
    ELSE IF rand < current_weight + probs[i].weight THEN probs[i].name
    ELSE PickFromStrict(probs, i + 1, current_weight + probs[i].weight, rand)

\* the loop over probs: the first symbol whose cumulative weight reaches
\* rand; "MISS", the value set before the loop, when none does
RECURSIVE PickFrom(_, _, _, _)
PickFrom(probs, i, current_weight, rand) ==
    IF i > Len(probs) THEN "MISS"
    ELSE IF rand <= current_weight + probs[i].weight THEN probs[i].name
    ELSE PickFrom(probs, i + 1, current_weight + probs[i].weight, rand)

\* for n, _, p in probs: if n == outcome_name: payout_mult = p
MultOf(probs, outcome_name) ==
    LET hits == {i \in 1..Len(probs) : probs[i].name = outcome_name}
    IN  IF hits = {} THEN 0 ELSE probs[CHOOSE i \in hits : \A j \in hits : j <= i].mult

NoSpin == [user |-> SYSTEM, mode |-> "none", rand |-> 0, sym |-> "none", mult |-> 0,
           ceiling |-> FALSE, spins |-> 0, bet |-> 0]

SpinsOf(st, u) == IF st[u] = NoRow THEN 0 ELSE st[u]

\* fault variant: the weighted draw made even when the ceiling is reached
SpinResultNoCeiling(mode_key, current_spins, rand, seven) ==
    LET mode_data == ModeData(mode_key)
        outcome_name == PickFrom(mode_data.probs, 1, 0, rand)
        resets == outcome_name \in {"SEVEN", "WILD", "DIAMOND"}
    IN  [sym |-> outcome_name,
         mult |-> IF outcome_name = "MISS" THEN 0 ELSE MultOf(mode_data.probs, outcome_name),
         ceiling |-> current_spins >= mode_data.ceiling,
         new_spins |-> IF resets THEN 0 ELSE current_spins + 1]

\* spin_slot between its SELECT and its INSERT: the outcome, its multiplier
\* and the new value of the counter
SpinResult(mode_key, current_spins, rand, seven) ==
    LET mode_data == ModeData(mode_key)
        is_ceiling == current_spins >= mode_data.ceiling
        outcome_name == IF is_ceiling THEN (IF seven THEN "SEVEN" ELSE "DIAMOND")
                        ELSE PickFrom(mode_data.probs, 1, 0, rand)
        resets == outcome_name \in {"SEVEN", "WILD", "DIAMOND"}
    IN  [sym |-> outcome_name,
         mult |-> IF outcome_name = "MISS" THEN 0 ELSE MultOf(mode_data.probs, outcome_name),
         ceiling |-> is_ceiling,
         new_spins |-> IF resets THEN 0 ELSE current_spins + 1]

\* config_slot: an unknown key is refused, a known one is stored
ConfigSlot(mode, fail) ==
    /\ budget > 0 /\ budget' = budget - 1
    /\ IF mode \notin ModeKeys
       THEN /\ reply' = Msg("slot_mode", SYSTEM, SYSTEM, 0, "InvalidMode")
            /\ UNCHANGED slot_mode
       ELSE IF fail
       THEN /\ reply' = Msg("slot_mode", SYSTEM, SYSTEM, 0, "error")
            /\ UNCHANGED slot_mode
       ELSE /\ reply' = Msg("slot_mode", SYSTEM, SYSTEM, 0, "ok")
            /\ slot_mode' = mode
    /\ DbUnchanged
    /\ UNCHANGED <<tasks, outbox, nextBatch, voiceEnv, slot_states, spin, gameEnv>>

\* Slot.slot: SELECT balance; if not row or balance < bet: return
SlotRead(t, u, bet) ==
    /\ FreeSlot(t)
    /\ budget > 0 /\ budget' = budget - 1
    /\ LET bal == SelectBalance(accounts, u)
       IN  IF CheckDailyLimit(u, "slot")
           THEN /\ reply' = Msg("slot", u, SYSTEM, bet, "DailyLimit")
                /\ UNCHANGED tasks
           ELSE IF bal = NoRow \/ bal < bet
           THEN /\ reply' = Msg("slot", u, SYSTEM, bet, "InsufficientFunds")
                /\ UNCHANGED tasks
           ELSE /\ tasks' = [tasks EXCEPT ![t] =
                       [IdleTask EXCEPT !.op = "slot", !.pc = "slot_debit",
                                        !.a = u, !.amt = bet, !.rd = bal]]
                /\ UNCHANGED reply
    /\ DbUnchanged
    /\ UNCHANGED <<outbox, nextBatch, voiceEnv, slotEnv, gameEnv>>

SlotDebitTxn(db, u, bet, fail) ==
    LET d1 == Step(db, 1, fail, UpdateAccount(db, u, -bet, 0))
        d2 == Step(d1, 2, fail, UpdateAccount(d1, SYSTEM, bet, 0))
    IN  Step(d2, 3, fail, d2)

\* the wager: debit the player, credit the system account, commit
SlotDebit(t, fail) ==
    /\ tasks[t].op = "slot" /\ tasks[t].pc = "slot_debit"
    /\ LET d == Finish(DbNow, SlotDebitTxn(DbNow, tasks[t].a, tasks[t].amt, fail))
       IN  /\ Publish(d)
           /\ IF d.ok
              THEN /\ tasks' = [tasks EXCEPT ![t].pc = "slot_spin"]
                   /\ UNCHANGED reply
              ELSE Done(t, "slot", "error")
    /\ UNCHANGED <<budget, outbox, nextBatch, voiceEnv, slotEnv, gameEnv>>

\* get_current_mode and spin_slot, then the one-in-a-thousand rescue of a
\* MISS in Slot.slot.  A failed read of the mode gives "4"; a failure inside
\* spin_slot ends the command with the wager already taken.  The 3.5 s
\* cooldown of Slot.slot keeps two calls of spin_slot for one player apart,
\* so its SELECT and its INSERT are taken as one step.
SlotSpin(t, rand, seven, save, modefail, fail) ==
    /\ tasks[t].op = "slot" /\ tasks[t].pc = "slot_spin"
    /\ LET u == tasks[t].a
           current_mode_key == IF modefail \/ slot_mode = "none" THEN "4" ELSE slot_mode
           current_spins == SpinsOf(slot_states, u)
           r == SpinResult(current_mode_key, current_spins, rand, seven)
           is_stella_save == r.sym = "MISS" /\ ~r.ceiling /\ save
           multiplier == IF is_stella_save THEN 20 ELSE r.mult
       IN  IF fail
           THEN /\ Done(t, "slot", "error")
                /\ UNCHANGED <<slot_states, spin, gameEnv>>
           ELSE /\ slot_states' = [slot_states EXCEPT ![u] = r.new_spins]
                /\ spin' = [user |-> u, mode |-> current_mode_key, rand |-> rand,
                            sym |-> IF is_stella_save THEN "SEVEN" ELSE r.sym,
                            mult |-> multiplier, ceiling |-> r.ceiling,
                            spins |-> current_spins, bet |-> tasks[t].amt]
                /\ tasks' = [tasks EXCEPT ![t].pc = "slot_settle", ![t].m = multiplier]
                /\ UNCHANGED reply
    /\ DbUnchanged
    /\ UNCHANGED <<budget, outbox, nextBatch, voiceEnv, slot_mode, gameEnv>>

\* fault variant: the payout net of the wager
SlotSettleTxnNet(db, u, bet, mult, fail) ==
    IF mult > 0
    THEN LET d1 == Step(db, 1, fail, UpdateAccount(db, u, bet * mult - bet, 0))
         IN  Step(d1, 2, fail, d1)
    ELSE IF Percent(bet, 5) > 0
    THEN LET d1 == Step(db, 1, fail, FeedPool(db, Percent(bet, 5)))
         IN  Step(d1, 2, fail, d1)
    ELSE db

SlotSettleTxn(db, u, bet, mult, fail) ==
    IF mult > 0
    THEN LET d1 == Step(db, 1, fail, UpdateAccount(db, u, bet * mult, 0))
         IN  Step(d1, 2, fail, d1)
    ELSE IF Percent(bet, 5) > 0
    THEN LET d1 == Step(db, 1, fail, FeedPool(db, Percent(bet, 5)))
         IN  Step(d1, 2, fail, d1)
    ELSE db

\* after the reels stop: credit bet * multiplier, or feed 5% to the pool and,
\* once the feed is committed, count the play
SlotSettle(t, fail) ==
    /\ tasks[t].op = "slot" /\ tasks[t].pc = "slot_settle"
    /\ LET d == Finish(DbNow, SlotSettleTxn(DbNow, tasks[t].a, tasks[t].amt, tasks[t].m, fail))
       IN  /\ Publish(d)
           /\ Done(t, "slot", IF d.ok THEN "ok" ELSE "error")
           /\ IF d.ok /\ tasks[t].m <= 0 /\ Percent(tasks[t].amt, 5) > 0
              THEN IncrementDailyCount(tasks[t].a, "slot")
              ELSE UNCHANGED daily_play_counts
    /\ UNCHANGED <<budget, outbox, nextBatch, voiceEnv, slotEnv, lottery_tickets, hand>>

----------------------------------------------------------------------------
(* Chinchiro against another player: pvp_chinchiro, ChinchiroPVPApplyView, *)
(* start_pvp_game, settle_pvp.                                             *)

\* Chinchiro.check_balance: row and row['balance'] >= amount
CheckFunds(u, amount) ==
    SelectBalance(accounts, u) # NoRow /\ SelectBalance(accounts, u) >= amount

\* pvp_chinchiro: the challenge is posted when both players can pay the bet
PvpChallenge(t, p1, p2, bet) ==
    /\ FreeSlot(t)
    /\ budget > 0 /\ budget' = budget - 1
    /\ LET refusal == IF IsBot(p2) \/ p2 = p1 THEN "BadOpponent"
                      ELSE IF bet < 500 THEN "BadAmount"
                      ELSE IF ~CheckFunds(p1, bet) \/ ~CheckFunds(p2, bet)
                      THEN "InsufficientFunds" ELSE "none"
       IN  IF refusal # "none"
           THEN /\ reply' = Msg("pvp", p1, p2, bet, refusal)
                /\ UNCHANGED tasks
           ELSE /\ tasks' = [tasks EXCEPT ![t] =
                       [IdleTask EXCEPT !.op = "pvp", !.pc = "pvp_offer",
                                        !.a = p1, !.b = p2, !.amt = bet]]
                /\ UNCHANGED reply
    /\ DbUnchanged
    /\ UNCHANGED <<outbox, nextBatch, voiceEnv, slotEnv, gameEnv>>

\* ChinchiroPVPApplyView: the opponent accepts (both balances are checked
\* again), declines, or lets the 60 seconds pass
PvpAnswer(t, accepted) ==
    /\ tasks[t].op = "pvp" /\ tasks[t].pc = "pvp_offer"
    /\ IF ~accepted THEN Done(t, "pvp", "declined")
       ELSE IF ~CheckFunds(tasks[t].b, tasks[t].amt) \/ ~CheckFunds(tasks[t].a, tasks[t].amt)
       THEN /\ reply' = Msg("pvp", tasks[t].a, tasks[t].b, tasks[t].amt, "InsufficientFunds")
            /\ UNCHANGED tasks
       ELSE /\ tasks' = [tasks EXCEPT ![t].pc = "pvp_stake"]
            /\ UNCHANGED reply
    /\ DbUnchanged
    /\ UNCHANGED <<budget, outbox, nextBatch, voiceEnv, slotEnv, gameEnv>>

\* start_pvp_game: both stakes are debited in one transaction
PvpStake(t, fail) ==
    /\ tasks[t].op = "pvp" /\ tasks[t].pc = "pvp_stake"
    /\ LET d1 == Step(DbNow, 1, fail, UpdateAccount(DbNow, tasks[t].a, -tasks[t].amt, 0))
           d2 == Step(d1, 2, fail, UpdateAccount(d1, tasks[t].b, -tasks[t].amt, 0))
           d == Finish(DbNow, Step(d2, 3, fail, d2))
       IN  /\ Publish(d)
           /\ IF d.ok THEN /\ tasks' = [tasks EXCEPT ![t].pc = "pvp_play"]
                            /\ UNCHANGED reply
              ELSE Done(t, "pvp", "error")
    /\ UNCHANGED <<budget, outbox, nextBatch, voiceEnv, slotEnv, gameEnv>>

\* the two calls of run_player_turn, which write nothing but their results:
\* r1 and r2 are the rolls the turns end with
PvpTurns(t, r1, r2) ==
    /\ tasks[t].op = "pvp" /\ tasks[t].pc = "pvp_play"
    /\ LET h1 == GetRollResult(r1[1], r1[2])
           h2 == GetRollResult(r2[1], r2[2])
       IN  tasks' = [tasks EXCEPT ![t].pc = "pvp_settle",
                                  ![t].dealer = [score |-> h1.score, mult |-> h1.mult],
                                  ![t].best = [score |-> h2.score, mult |-> h2.mult]]
    /\ DbUnchanged
    /\ UNCHANGED <<budget, reply, outbox, nextBatch, voiceEnv, slotEnv, gameEnv>>

\* settle_pvp: who wins (0 for a draw) and payout_mult
PvpOutcome(r1, r2) ==
    LET up(m) == IF m > 0 THEN m ELSE 1
        down(m) == IF m < 0 THEN -m ELSE 1
        max(x, y) == IF x >= y THEN x ELSE y
    IN  IF r1.score = -99 /\ r2.score = -99 THEN [winner |-> 0, payout_mult |-> 1]
        ELSE IF r1.score = -99 THEN [winner |-> 2, payout_mult |-> 1]
        ELSE IF r2.score = -99 THEN [winner |-> 1, payout_mult |-> 1]
        ELSE IF r1.score > r2.score
        THEN [winner |-> 1, payout_mult |-> max(up(r1.mult), down(r2.mult))]
        ELSE IF r2.score > r1.score
        THEN [winner |-> 2, payout_mult |-> max(up(r2.mult), down(r1.mult))]
        ELSE [winner |-> 0, payout_mult |-> 1]

\* settle_pvp with payout_mult > 1: SELECT balance of the loser (l_bal)
PvpSettleRead(t) ==
    /\ tasks[t].op = "pvp" /\ tasks[t].pc = "pvp_settle"
    /\ LET out == PvpOutcome(tasks[t].dealer, tasks[t].best)
           loser == IF out.winner = 1 THEN tasks[t].b ELSE tasks[t].a
       IN  /\ out.winner # 0 /\ out.payout_mult > 1
           /\ tasks' = [tasks EXCEPT ![t].pc = "pvp_write",
                                      ![t].rd = SelectBalance(accounts, loser)]
    /\ DbUnchanged
    /\ UNCHANGED <<budget, reply, outbox, nextBatch, voiceEnv, slotEnv, gameEnv>>

\* fault variant: the extra is paid to the winner without being taken from the loser
PvpSettleTxnNoTake(db, p1, p2, bet, out, l_bal, fail) ==
    LET winner == IF out.winner = 1 THEN p1 ELSE p2
        extra_needed == bet * (out.payout_mult - 1)
        extra_take == IF out.payout_mult > 1
                      THEN (IF extra_needed < l_bal THEN extra_needed ELSE l_bal) ELSE 0
        total_win == bet * 2 + extra_take
        d2 == Step(db, 2, fail, UpdateAccount(db, winner, total_win - Percent(total_win, 5), 0))
    IN  Step(d2, 3, fail, d2)

\* settle_pvp: a draw refunds both stakes; otherwise the loser pays up to
\* bet * (payout_mult - 1) more, not more than l_bal, and the winner is
\* credited the pot less the fee of 5%
PvpSettleTxn(db, p1, p2, bet, out, l_bal, fail) ==
    IF out.winner = 0
    THEN LET d1 == Step(db, 1, fail, UpdateAccount(db, p1, bet, 0))
             d2 == Step(d1, 2, fail, UpdateAccount(d1, p2, bet, 0))
         IN  Step(d2, 3, fail, d2)
    ELSE LET winner == IF out.winner = 1 THEN p1 ELSE p2
             loser == IF out.winner = 1 THEN p2 ELSE p1
             extra_needed == bet * (out.payout_mult - 1)
             extra_take == IF out.payout_mult > 1
                           THEN (IF extra_needed < l_bal THEN extra_needed ELSE l_bal) ELSE 0
             total_win == bet * 2 + extra_take
             d1 == IF extra_take > 0
                   THEN Step(db, 1, fail, UpdateAccount(db, loser, -extra_take, 0)) ELSE db
             d2 == Step(d1, 2, fail,
                        UpdateAccount(d1, winner, total_win - Percent(total_win, 5), 0))
         IN  Step(d2, 3, fail, d2)

\* settle_pvp: the write transaction, entered at once where l_bal is not read
PvpSettleWrite(t, fail) ==
    /\ tasks[t].op = "pvp"
    /\ LET out == PvpOutcome(tasks[t].dealer, tasks[t].best)
           d == Finish(DbNow, PvpSettleTxn(DbNow, tasks[t].a, tasks[t].b, tasks[t].amt,
                                           out, tasks[t].rd, fail))
       IN  /\ \/ tasks[t].pc = "pvp_write"
              \/ tasks[t].pc = "pvp_settle" /\ (out.winner = 0 \/ out.payout_mult <= 1)
           /\ Publish(d)
           /\ Done(t, "pvp", IF d.ok THEN "ok" ELSE "error")
    /\ UNCHANGED <<budget, outbox, nextBatch, voiceEnv, slotEnv, gameEnv>>

----------------------------------------------------------------------------
(* Jackpot: buy, draw, and the pool value status reports.                  *)

code_price == 5000
pool_addition == 3000
limit_per_round == 30
seed_money == 300000

\* Jackpot.status: pool = int(row['value']) if row else self.seed_money
StatusPool(p) == IF p = NoRow THEN seed_money ELSE p

\* Jackpot.buy: amount check, ticket count against the limit, balance check
JackpotBuyRead(t, u, amount) ==
    /\ FreeSlot(t)
    /\ budget > 0 /\ budget' = budget - 1
    /\ LET count == Cardinality({i \in DOMAIN lottery_tickets :
                                    lottery_tickets[i].user_id = u})
           bal == SelectBalance(accounts, u)
           refusal == IF amount <= 0 THEN "BadAmount"
                      ELSE IF count + amount > limit_per_round THEN "LimitReached"
                      ELSE IF bal = NoRow \/ bal < code_price * amount
                      THEN "InsufficientFunds" ELSE "none"
       IN  IF refusal # "none"
           THEN /\ reply' = Msg("jackpot_buy", u, SYSTEM, amount, refusal)
                /\ UNCHANGED tasks
           ELSE /\ tasks' = [tasks EXCEPT ![t] =
                       [IdleTask EXCEPT !.op = "jackpot_buy", !.pc = "jp_write",
                                        !.a = u, !.amt = amount]]
                /\ UNCHANGED reply
    /\ DbUnchanged
    /\ UNCHANGED <<outbox, nextBatch, voiceEnv, slotEnv, gameEnv>>

\* Jackpot.buy: debit the price, feed the pool, insert the tickets, commit;
\* nums are the values of random.randint(0, 999)
JackpotBuyWrite(t, nums, fail) ==
    /\ tasks[t].op = "jackpot_buy" /\ tasks[t].pc = "jp_write"
    /\ LET u == tasks[t].a
           amount == tasks[t].amt
           d1 == Step(DbNow, 1, fail, UpdateAccount(DbNow, u, -(code_price * amount), 0))
           d2 == Step(d1, 2, fail, FeedPool(d1, pool_addition * amount))
           d == Finish(DbNow, Step(d2, 3, fail, d2))
       IN  /\ Publish(d)
           /\ lottery_tickets' =
                 IF d.ok THEN lottery_tickets \o
                              [i \in 1..amount |-> [user_id |-> u, number |-> nums[i]]]
                 ELSE lottery_tickets
           /\ Done(t, "jackpot_buy", IF d.ok THEN "ok" ELSE "error")
    /\ UNCHANGED <<budget, outbox, nextBatch, voiceEnv, slotEnv, daily_play_counts, hand>>

\* Jackpot.draw: current_pool read on a connection of its own, raised to
\* seed_money when it is less
JackpotDrawRead(t) ==
    /\ FreeSlot(t)
    /\ budget > 0 /\ budget' = budget - 1
    /\ tasks' = [tasks EXCEPT ![t] =
           [IdleTask EXCEPT !.op = "jackpot_draw", !.pc = "jp_pick",
                            !.rd = IF StatusPool(pool) < seed_money THEN seed_money
                                   ELSE StatusPool(pool)]]
    /\ DbUnchanged
    /\ UNCHANGED <<reply, outbox, nextBatch, voiceEnv, slotEnv, gameEnv>>

\* Jackpot.draw: the winning number (randint, or with panic_release the
\* number of a ticket chosen among those sold) and the SELECT of the winners
JackpotDrawPick(t, panic_release, number, lucky) ==
    /\ tasks[t].op = "jackpot_draw" /\ tasks[t].pc = "jp_pick"
    /\ IF panic_release /\ lottery_tickets = <<>>
       THEN Done(t, "jackpot_draw", "NoTickets")
       ELSE /\ panic_release => lucky \in DOMAIN lottery_tickets
            /\ LET winning_number == IF panic_release THEN lottery_tickets[lucky].number
                                      ELSE number
                   won(tk) == tk.number = winning_number
                   rows == SelectSeq(lottery_tickets, won)
               IN  tasks' = [tasks EXCEPT
                       ![t].pc = "jp_settle", ![t].m = winning_number,
                       ![t].winners = [i \in DOMAIN rows |-> rows[i].user_id]]
            /\ UNCHANGED reply
    /\ DbUnchanged
    /\ UNCHANGED <<budget, outbox, nextBatch, voiceEnv, slotEnv, gameEnv>>

\* UPDATE accounts SET balance = balance + prize, once per winning ticket
RECURSIVE CreditWinners(_, _, _)
CreditWinners(db, ws, prize) ==
    IF ws = <<>> THEN db
    ELSE CreditWinners(UpdateAccount(db, Head(ws), prize, 0), Tail(ws), prize)

\* UPDATE server_config SET value = seed_money WHERE key = 'jackpot_pool'
ResetPool(db) ==
    IF ~db.ok THEN db ELSE [db EXCEPT !.pool = IF @ = NoRow THEN NoRow ELSE seed_money]

\* Jackpot.draw: with a winner, 20% of current_pool is withheld, the rest is
\* divided among the winning tickets and the pool row is set to seed_money;
\* with or without a winner all tickets are deleted
JackpotDrawWrite(t, fail) ==
    /\ tasks[t].op = "jackpot_draw" /\ tasks[t].pc = "jp_settle"
    /\ LET ws == tasks[t].winners
           current_pool == tasks[t].rd
           prize_per_winner == (current_pool - Percent(current_pool, 20)) \div Len(ws)
           d1 == IF Len(ws) > 0
                 THEN Step(DbNow, 1, fail, CreditWinners(DbNow, ws, prize_per_winner))
                 ELSE DbNow
           d2 == IF Len(ws) > 0 THEN Step(d1, 2, fail, ResetPool(d1)) ELSE d1
           d == Finish(DbNow, Step(d2, 3, fail, d2))
       IN  /\ Publish(d)
           /\ lottery_tickets' = IF d.ok THEN <<>> ELSE lottery_tickets
           /\ Done(t, "jackpot_draw", IF d.ok THEN "ok" ELSE "error")
    /\ UNCHANGED <<budget, outbox, nextBatch, voiceEnv, slotEnv, daily_play_counts, hand>>

----------------------------------------------------------------------------
(* VoiceSystem: on_voice_state_update, _process_reward, set_vc_rate.        *)
(*                                                                         *)
(* The listener holds the member's asyncio.Lock from its first line to its *)
(* last, voice_tracking is written by this listener only, and the SELECT   *)
(* of join_time touches no other table: the read and the write transaction *)
(* of one event are therefore taken as one step.                           *)

\* Python floats are IEEE-754 binary64: 53 significant bits, results rounded
\* to nearest, ties to even.  A float is held here as its significand, a
\* sequence of bits with the most significant first, and a count of the
\* bits that lie after the binary point.
MantissaBits == 53

\* the binary digits of n, without leading zeros
BitsOf(n) ==
    LET len == CHOOSE l \in 0..30 : n < 2^l /\ (l = 0 \/ n >= 2^(l - 1))
    IN  [i \in 1..len |-> (n \div 2^(len - i)) % 2]

\* the recursions below halve their argument, to stay shallow
RECURSIVE ValueOf(_)
ValueOf(bits) ==
    IF Len(bits) = 0 THEN 0
    ELSE IF Len(bits) = 1 THEN bits[1]
    ELSE LET h == Len(bits) \div 2
         IN  ValueOf(SubSeq(bits, 1, h)) * 2^(Len(bits) - h)
                 + ValueOf(SubSeq(bits, h + 1, Len(bits)))

\* 2^k modulo den
RECURSIVE Pow2Mod(_, _)
Pow2Mod(k, den) ==
    IF k = 0 THEN 1 % den
    ELSE LET h == Pow2Mod(k \div 2, den)
         IN  (h * h * (IF k % 2 = 1 THEN 2 ELSE 1)) % den

\* what is left of r / den after n bits of the quotient, for 0 <= r < den
QuotientRest(r, den, n) == (r * Pow2Mod(n, den)) % den

\* the first n bits after the binary point of r / den
QuotientBits(r, den, n) ==
    [i \in 1..n |-> (2 * QuotientRest(r, den, i - 1)) \div den]

Increment(bits) ==
    LET zeros == {i \in 1..Len(bits) : bits[i] = 0}
        last == IF zeros = {} THEN 0 ELSE CHOOSE i \in zeros : \A j \in zeros : j <= i
    IN  [i \in 1..Len(bits) |-> IF i < last THEN bits[i] ELSE IF i = last THEN 1 ELSE 0]

\* the w binary digits of n < 2^w, leading zeros included
FixedBits(n, w) == [i \in 1..w |-> (n \div 2^(w - i)) % 2]

\* bits * k + carry for a small integer k, ChunkBits bits at a time from the
\* least significant end
ChunkBits == 11

RECURSIVE MulChunks(_, _, _)
MulChunks(bits, k, carry) ==
    IF Len(bits) = 0 THEN BitsOf(carry)
    ELSE LET w == IF Len(bits) < ChunkBits THEN Len(bits) ELSE ChunkBits
             v == ValueOf(SubSeq(bits, Len(bits) - w + 1, Len(bits))) * k + carry
         IN  MulChunks(SubSeq(bits, 1, Len(bits) - w), k, v \div 2^w)
                 \o FixedBits(v % 2^w, w)

TimesSmall(bits, k) == MulChunks(bits, k, 0)

\* round an exact significand (leading bit 1, sticky: a nonzero tail beyond
\* its last bit) to MantissaBits bits; dropped = bits cut off at the end
RoundNearestEven(bits, sticky) ==
    IF Len(bits) <= MantissaBits THEN [m |-> bits, dropped |-> 0]
    ELSE LET keep == SubSeq(bits, 1, MantissaBits)
             guard == bits[MantissaBits + 1]
             tail == sticky \/ \E j \in (MantissaBits + 2)..Len(bits) : bits[j] = 1
             up == guard = 1 /\ (tail \/ keep[MantissaBits] = 1)
             all1 == \A i \in 1..MantissaBits : keep[i] = 1
         IN  [m |-> IF ~up THEN keep
                    ELSE IF all1 THEN <<1>> \o [i \in 1..MantissaBits |-> 0]
                    ELSE Increment(keep),
              dropped |-> Len(bits) - MantissaBits]

\* sec / 60 : int / int true division, correctly rounded (sec >= 60)
SecondsOver60(sec) ==
    LET whole == BitsOf(sec \div 60)
        n == MantissaBits + 1 - Len(whole)
        exact == whole \o QuotientBits(sec % 60, 60, n)
        r == RoundNearestEven(exact, QuotientRest(sec % 60, 60, n) # 0)
    IN  [m |-> r.m, frac |-> n - r.dropped]

\* rate * x : the int converted exactly, one rounded multiplication
RateTimes(rate, x) ==
    LET r == RoundNearestEven(TimesSmall(x.m, rate), FALSE)
    IN  [m |-> r.m, frac |-> x.frac - r.dropped]

\* int(x) for x >= 0 : the fraction bits cut off
IntOf(x) == ValueOf(SubSeq(x.m, 1, Len(x.m) - x.frac))

\* fault variant: integer arithmetic and no floor (the Lumen variant's formula)
RewardOfNoFloor(rate, sec) == (sec * rate) \div 60

\* if sec < 60: reward = 0   else: reward = int(self.reward_rate * (sec / 60))
RewardOf(rate, sec) ==
    IF sec < 60 THEN 0 ELSE IntOf(RateTimes(rate, SecondsOver60(sec)))

\* INSERT OR REPLACE INTO voice_tracking (user_id, join_time) VALUES (?, ?)
ReplaceTracking(db, u, now) ==
    IF ~db.ok THEN db ELSE [db EXCEPT !.vt = [@ EXCEPT ![u] = now]]

\* DELETE FROM voice_tracking WHERE user_id = ?
DeleteTracking(db, u) ==
    IF ~db.ok THEN db ELSE [db EXCEPT !.vt = [@ EXCEPT ![u] = NoRow]]

\* INSERT OR IGNORE INTO voice_stats (..., 0); UPDATE ... total_seconds + sec
AddSeconds(db, u, sec) ==
    IF ~db.ok THEN db
    ELSE [db EXCEPT !.vs = [@ EXCEPT ![u] = (IF @ = NoRow THEN 0 ELSE @) + sec]]

\* the write transaction of _process_reward
RewardTxn(db, u, sec, reward, fail) ==
    IF reward > 0
    THEN LET d1 == Step(db, 1, fail, InsertAccountIgnore(db, SYSTEM))
             d2 == Step(d1, 2, fail, InsertAccountIgnore(d1, u))
             d3 == Step(d2, 3, fail, UpdateAccount(d2, u, reward, reward))
             d4 == Step(d3, 4, fail, AddSeconds(d3, u, sec))
             d5 == Step(d4, 5, fail, DeleteTracking(d4, u))
         IN  Step(d5, 6, fail, d5)
    ELSE LET d1 == Step(db, 1, fail, DeleteTracking(db, u))
         IN  Step(d1, 2, fail, d1)

\* fault variant: the tracking row deleted in a transaction of its own,
\* committed before the reward is written
ProcessRewardDeleteFirst(u, now, fail) ==
    IF voice_tracking[u] = NoRow
    THEN /\ DbUnchanged
         /\ reply' = Msg("voice_end", SYSTEM, u, 0, "NoActiveSession")
    ELSE LET sec == now - voice_tracking[u]
             reward == RewardOf(reward_rate, sec)
             d0 == DeleteTracking(DbNow, u)
             d == Finish(d0, RewardTxn(d0, u, sec, reward, fail))
         IN  /\ Publish(d)
             /\ reply' = Msg("voice_end", SYSTEM, u, reward, IF d.ok THEN "ok" ELSE "error")

\* fault variant: a missing tracking row read as a session open since time 0
ProcessRewardNoRowCheck(u, now, fail) ==
    LET join == IF voice_tracking[u] = NoRow THEN 0 ELSE voice_tracking[u]
        sec == now - join
        reward == RewardOf(reward_rate, sec)
        d == Finish(DbNow, RewardTxn(DbNow, u, sec, reward, fail))
    IN  /\ Publish(d)
        /\ reply' = Msg("voice_end", SYSTEM, u, reward, IF d.ok THEN "ok" ELSE "error")

\* _process_reward: the outcome is what the handler logs
ProcessReward(u, now, fail) ==
    IF voice_tracking[u] = NoRow
    THEN /\ DbUnchanged
         /\ reply' = Msg("voice_end", SYSTEM, u, 0, "NoActiveSession")
    ELSE LET sec == now - voice_tracking[u]
             reward == RewardOf(reward_rate, sec)
             d == Finish(DbNow, RewardTxn(DbNow, u, sec, reward, fail))
         IN  /\ Publish(d)
             /\ reply' = Msg("voice_end", SYSTEM, u, reward, IF d.ok THEN "ok" ELSE "error")

\* the start branch: one INSERT OR REPLACE and its commit, errors only logged
StartTracking(u, now, fail) ==
    LET d1 == Step(DbNow, 1, fail, ReplaceTracking(DbNow, u, now))
        d == Finish(DbNow, Step(d1, 2, fail, d1))
    IN  /\ Publish(d)
        /\ reply' = Msg("voice_start", SYSTEM, u, 0, IF d.ok THEN "ok" ELSE "error")

\* on_voice_state_update(member, before, after), `elapsed` seconds after the
\* previous event; active = is_active(after)
OnVoiceStateUpdate(member, active, elapsed, fail) ==
    /\ budget > 0 /\ budget' = budget - 1
    /\ clock' = clock + elapsed
    /\ in_voice' = IF active THEN in_voice \cup {member} ELSE in_voice \ {member}
    /\ IF IsBot(member) \/ (member \in in_voice) = active
       THEN /\ DbUnchanged
            /\ reply' = Msg("voice_none", SYSTEM, member, 0, "none")
       ELSE IF active
            THEN StartTracking(member, clock', fail)
            ELSE ProcessReward(member, clock', fail)
    /\ UNCHANGED <<tasks, outbox, nextBatch, reward_rate, slotEnv, gameEnv>>

\* /vc報酬レート設定
SetVcRate(amount, fail) ==
    /\ budget > 0 /\ budget' = budget - 1
    /\ IF amount < 0
       THEN /\ reply' = Msg("vc_rate", SYSTEM, SYSTEM, amount, "InvalidAmount")
            /\ UNCHANGED reward_rate
       ELSE IF fail
            THEN /\ reply' = Msg("vc_rate", SYSTEM, SYSTEM, amount, "error")
                 /\ UNCHANGED reward_rate
            ELSE /\ reply' = Msg("vc_rate", SYSTEM, SYSTEM, amount, "ok")
                 /\ reward_rate' = amount
    /\ DbUnchanged
    /\ UNCHANGED <<tasks, outbox, nextBatch, in_voice, clock, slotEnv, gameEnv>>

\* on_ready after a restart of the process: the handlers that were in
\* flight are gone with their uncommitted transactions, the members present
\* are whoever sits in a reward channel now, reload_targets reads the
\* persisted rate; voice_tracking is not looked at
OnReady(present, elapsed) ==
    /\ budget > 0 /\ budget' = budget - 1
    /\ clock' = clock + elapsed
    /\ in_voice' = present
    /\ tasks' = [t \in Tasks |-> IdleTask]
    /\ reply' = Msg("ready", SYSTEM, SYSTEM, 0, "ok")
    /\ DbUnchanged
    /\ UNCHANGED <<outbox, nextBatch, reward_rate, slotEnv, gameEnv>>

----------------------------------------------------------------------------
(* The same listener at the grain of its awaits, with the member's lock    *)
(* explicit.  asyncio.Lock hands the lock to its waiters in arrival order. *)
(* A task waiting for the lock is at "vc_lock"; the task that has read the *)
(* join_time and has its write transaction ahead is at "vc_write" and      *)
(* holds the lock.                                                         *)

\* fault variant: the listener without the lock
LockHeldNever(u) == FALSE

LockHeld(u) ==
    \E t \in Tasks : tasks[t].op = "voice_end" /\ tasks[t].pc = "vc_write" /\ tasks[t].b = u

\* rd of a waiting task: the time its event arrived
FirstWaiting(t) ==
    \A s \in Tasks \ {t} :
        (tasks[s].pc = "vc_lock" /\ tasks[s].b = tasks[t].b) => tasks[s].rd > tasks[t].rd

\* the event arrives; a bot's event and an event that changes nothing end here
VoiceDispatch(t, member, active, elapsed) ==
    /\ FreeSlot(t)
    /\ budget > 0 /\ budget' = budget - 1
    /\ clock' = clock + elapsed
    /\ in_voice' = IF active THEN in_voice \cup {member} ELSE in_voice \ {member}
    /\ IF IsBot(member) \/ (member \in in_voice) = active
       THEN /\ reply' = Msg("voice_none", SYSTEM, member, 0, "none")
            /\ UNCHANGED tasks
       ELSE /\ tasks' = [tasks EXCEPT ![t] =
                   [IdleTask EXCEPT !.op = IF active THEN "voice_start" ELSE "voice_end",
                                    !.pc = "vc_lock", !.a = SYSTEM, !.b = member,
                                    !.rd = clock']]
            /\ UNCHANGED reply
    /\ DbUnchanged
    /\ UNCHANGED <<outbox, nextBatch, reward_rate, slotEnv, gameEnv>>

\* the lock is taken and now is read; the start branch runs to its end, the
\* end branch selects the join_time
VoiceBegin(t, fail) ==
    /\ tasks[t].pc = "vc_lock"
    /\ ~LockHeld(tasks[t].b)
    /\ FirstWaiting(t)
    /\ LET u == tasks[t].b
       IN  IF tasks[t].op = "voice_start"
           THEN /\ StartTracking(u, clock, fail)
                /\ tasks' = [tasks EXCEPT ![t] = IdleTask]
           ELSE IF voice_tracking[u] = NoRow
                THEN /\ DbUnchanged
                     /\ reply' = Msg("voice_end", SYSTEM, u, 0, "NoActiveSession")
                     /\ tasks' = [tasks EXCEPT ![t] = IdleTask]
                ELSE /\ DbUnchanged
                     /\ tasks' = [tasks EXCEPT ![t].pc = "vc_write",
                                               ![t].rd = voice_tracking[u],
                                               ![t].m = clock]
                     /\ UNCHANGED reply
    /\ UNCHANGED <<budget, outbox, nextBatch, voiceEnv, slotEnv, gameEnv>>

\* the write transaction of _process_reward; the lock is released after it
VoiceSettle(t, fail) ==
    /\ tasks[t].op = "voice_end" /\ tasks[t].pc = "vc_write"
    /\ LET u == tasks[t].b
           sec == tasks[t].m - tasks[t].rd
           reward == RewardOf(reward_rate, sec)
           d == Finish(DbNow, RewardTxn(DbNow, u, sec, reward, fail))
       IN  /\ Publish(d)
           /\ reply' = Msg("voice_end", SYSTEM, u, reward, IF d.ok THEN "ok" ELSE "error")
    /\ tasks' = [tasks EXCEPT ![t] = IdleTask]
    /\ UNCHANGED <<budget, outbox, nextBatch, voiceEnv, slotEnv, gameEnv>>

----------------------------------------------------------------------------
(* Specifications.  Start* begin a handler invocation (and use up one of   *)
(* the budget), Step* continue one that is in flight.                      *)

\* randint, random() < 0.9 at the ceiling, random() < 0.001 for the rescue,
\* the read of the mode fails, the write of the counter fails
SpinInputs ==
    { <<10, TRUE, FALSE, FALSE, FALSE>>,       \* DIAMOND in both modes
      <<3725, TRUE, FALSE, FALSE, FALSE>>,     \* CHERRY in mode "6", MISS in mode "4"
      <<10000, TRUE, FALSE, FALSE, FALSE>>,    \* MISS, or SEVEN at the ceiling
      <<10000, FALSE, FALSE, FALSE, FALSE>>,   \* MISS, or DIAMOND at the ceiling
      <<10000, TRUE, TRUE, FALSE, FALSE>>,     \* MISS rescued
      <<10000, TRUE, FALSE, TRUE, FALSE>>,     \* mode "4" for want of the row
      <<10, TRUE, FALSE, FALSE, TRUE>> }       \* the counter cannot be written
SlotModes == {"6"}
Bets == {300}
ChinchiroBets == {1000}

\* seconds between one voice event and the next
Elapsed == {30, 138}
\* statement of a voice write transaction that fails: none, the first, the commit
VoiceFails == {0, 1, 6}

StartVoice(Us, Gaps) ==
    \E u \in Us, active \in BOOLEAN, e \in Gaps, fail \in VoiceFails :
        OnVoiceStateUpdate(u, active, e, fail)

StartFunds(Us, Amts) ==
    \E u \in Us, act \in {"add", "remove"}, amt \in Amts, fail \in 0..3 :
        ManipulateFunds(u, act, amt, fail)

StartTransfer(Snd, Rcv, Amts) ==
    \E t \in Tasks, s \in Snd, r \in Rcv, amt \in Amts : TransferCmd(t, s, r, amt)

StepTransfer ==
    \/ \E t \in Tasks : ConfirmClick(t)
    \/ \E t \in Tasks : CancelClick(t)
    \/ \E t \in Tasks : ConfirmRead(t)
    \/ \E t \in Tasks, fail \in 0..3 : ConfirmWrite(t, fail)
    \/ \E t \in Tasks, e \in BOOLEAN, d \in BOOLEAN : ConfirmNotify(t, e, d)
    \/ \E t \in Tasks, s \in BOOLEAN : ConfirmLog(t, s)

StartPayroll ==
    \/ \E t \in Tasks : PayrollStart(t)
    \/ \E t \in Tasks, bid \in 1..nextBatch : RollbackRead(t, bid)

StepPayroll ==
    \/ \E t \in Tasks, fail \in 0..5 : PayrollWrite(t, fail)
    \/ \E t \in Tasks, fail \in 0..4 : RollbackWrite(t, fail)

StartBuy(Us) ==
    \E t \in Tasks, u \in Us, typ \in {"SHOP", "VC_CREATE"}, p \in {300} : BuyRead(t, u, typ, p)

StepBuy ==
    \/ \E t \in Tasks, fail \in 0..2 : BuyWrite(t, fail)
    \/ \E t \in Tasks, c \in BOOLEAN, fail \in 0..2 : VcCreate(t, c, fail)

StartGames(Us) ==
    \/ \E t \in Tasks, u \in Us : OmikujiRead(t, u)
    \/ \E t \in Tasks, u \in Us, bet \in Bets : ChinchiroStart(t, u, bet)
    \/ \E t \in Tasks, u \in Us, bet \in Bets : SlotRead(t, u, bet)

StepGames ==
    \/ \E t \in Tasks, r \in {1, 64, 100}, fail \in 0..4 : OmikujiWrite(t, r, fail)
    \/ \E t \in Tasks, m \in {-5, -1, 1} : SettlePveRead(t, m)
    \/ \E t \in Tasks, fail \in 0..3 : SettlePveWrite(t, fail)
    \/ \E t \in Tasks, fail \in 0..3 : SlotDebit(t, fail)
    \/ \E t \in Tasks, rand \in {3325, 3326}, fail \in BOOLEAN :
           SlotSpin(t, rand, TRUE, FALSE, FALSE, fail)
    \/ \E t \in Tasks, fail \in 0..2 : SlotSettle(t, fail)

Next ==
    \/ StartFunds({1}, {300})
    \/ StartTransfer({1}, {2}, {1000})
    \/ StartPayroll
    \/ StartBuy({1})
    \/ StartGames({1})
    \/ StartVoice({1}, {138})
    \/ StepTransfer
    \/ StepPayroll
    \/ StepBuy
    \/ StepGames

\* no slot_states row, no slot_mode row, no spin made
GamesFresh ==
    /\ daily_play_counts = [k \in Users \X Games |-> 0]
    /\ lottery_tickets = <<>>
    /\ hand = NoHand

SlotFresh ==
    /\ slot_states = [u \in Users |-> NoRow]
    /\ slot_mode = "none"
    /\ spin = NoSpin
    /\ GamesFresh

Init == InitWith(MaxOps) /\ in_voice = {} /\ SlotFresh

Spec == Init /\ [][Next]_vars

NextTransfer ==
    \/ StartFunds(Humans, FundAmounts)
    \/ StartTransfer({1}, Users, {0, 300, 1000, TRANSFER_CAP + 1})
    \/ StepTransfer
    \/ \E t, s \in Tasks : RepeatClick(t, s)

InitTransfer == InitWith(MaxTransferOps) /\ in_voice = {} /\ SlotFresh

SpecTransfer == InitTransfer /\ [][NextTransfer]_vars

NextPayroll ==
    \/ StartFunds(Humans, {300})
    \/ StartPayroll
    \/ StepPayroll

InitPayroll == InitWith(MaxPayrollOps) /\ in_voice = {} /\ SlotFresh

SpecPayroll == InitPayroll /\ [][NextPayroll]_vars

NextVoice ==
    \/ StartVoice(Users, Elapsed)
    \/ \E amount \in {-1, 0, 45}, fail \in BOOLEAN : SetVcRate(amount, fail)
    \/ \E present \in SUBSET {1}, e \in Elapsed : OnReady(present, e)

\* the bot may come up while members sit in a voice channel
InitVoice == InitWith(MaxVoiceOps) /\ in_voice \in SUBSET Humans /\ SlotFresh

SpecVoice == InitVoice /\ [][NextVoice]_vars

NextSlot ==
    \/ \E t \in Tasks, bet \in {600} : SlotRead(t, 1, bet)
    \/ \E t \in Tasks, fail \in {0, 3} : SlotDebit(t, fail)
    \/ \E t \in Tasks, i \in SpinInputs : SlotSpin(t, i[1], i[2], i[3], i[4], i[5])
    \/ \E t \in Tasks, fail \in {0, 2} : SlotSettle(t, fail)
    \/ \E mode \in SlotModes \cup {"7"}, fail \in BOOLEAN : ConfigSlot(mode, fail)
    \/ OnReady({}, 30)

\* the database of a server where the slot has been played: the player's
\* counter short of the ceiling or at it
InitSlot ==
    /\ InitWith(MaxSlotOps) /\ in_voice = {}
    /\ slot_states \in [Users -> {NoRow}] \cup
           {[u \in Users |-> IF u = 1 THEN n ELSE NoRow] : n \in {399, 400}}
    /\ slot_mode \in {"none"} \cup SlotModes
    /\ spin = NoSpin
    /\ GamesFresh

SpecSlot == InitSlot /\ [][NextSlot]_vars

\* the weighted draw of spin_slot on its own: the configured mode and the
\* value of randint(1, 10000) are drawn at the start, the step makes the draw
DrawReel ==
    /\ budget > 0 /\ budget' = budget - 1
    /\ spin' = [spin EXCEPT !.mode = slot_mode,
                            !.sym = PickFrom(ModeData(slot_mode).probs, 1, 0, spin.rand),
                            !.mult = MultOf(ModeData(slot_mode).probs,
                                            PickFrom(ModeData(slot_mode).probs, 1, 0, spin.rand))]
    /\ DbUnchanged
    /\ UNCHANGED <<tasks, reply, outbox, nextBatch, voiceEnv, slot_states, slot_mode, gameEnv>>

InitReel ==
    /\ InitWith(1) /\ in_voice = {}
    /\ DOMAIN accounts = {SYSTEM}
    /\ slot_states = [u \in Users |-> NoRow]
    /\ slot_mode \in ModeKeys
    /\ spin \in {[NoSpin EXCEPT !.rand = rand] : rand \in 1..RandMax}
    /\ GamesFresh

SpecReel == InitReel /\ [][DrawReel]_vars

\* rolls of the dice: off the board, 4-5-6, 1-2-3, a pair with odd die 2, no hand
Rolls == {<<TRUE, <<1, 1, 1>> >>, <<FALSE, <<6, 5, 4>> >>, <<FALSE, <<3, 1, 2>> >>,
          <<FALSE, <<2, 6, 6>> >>, <<FALSE, <<2, 4, 5>> >>}

\* tickets are bought and drawn while a lost game of chinchiro feeds the pool
NextJackpot ==
    \/ \E t \in Tasks, u \in {1, 2} : JackpotBuyRead(t, u, 1)
    \/ \E t \in Tasks : tasks[t].pc = "jp_write" /\
           \E nums \in [1..tasks[t].amt -> {7}], fail \in {0, 2} : JackpotBuyWrite(t, nums, fail)
    \/ \E t \in Tasks : JackpotDrawRead(t)
    \/ \E t \in Tasks, panic_release \in BOOLEAN, number \in {7, 8}, lucky \in {1} :
           JackpotDrawPick(t, panic_release, number, lucky)
    \/ \E t \in Tasks, fail \in {0, 3} : JackpotDrawWrite(t, fail)
    \/ \E t \in Tasks : ChinchiroStart(t, 2, 300)
    \/ \E t \in Tasks : SettlePveRead(t, -1)
    \/ \E t \in Tasks : SettlePveWrite(t, 0)

\* players with 10000 each; no pool row yet, or a pool fed since the last reset
InitJackpot ==
    /\ InitSeeded(MaxJackpotOps, {{1, 2}}, 10000, {NoRow, 303000})
    /\ in_voice = {} /\ SlotFresh

SpecJackpot == InitJackpot /\ [][NextJackpot]_vars

\* player 1, who holds 1000 as does player 2, challenges; the turns end with
\* a roll off the board, 1-1-1, 1-2-3 or a pair
NextPvp ==
    \/ \E t \in Tasks, p2 \in Users, bet \in {500} : PvpChallenge(t, 1, p2, bet)
    \/ \E t \in Tasks, accepted \in BOOLEAN : PvpAnswer(t, accepted)
    \/ \E t \in Tasks, fail \in {0, 2} : PvpStake(t, fail)
    \/ \E t \in Tasks : tasks[t].pc = "pvp_play" /\
           \E r1, r2 \in {<<TRUE, <<1, 1, 1>> >>, <<FALSE, <<1, 1, 1>> >>,
                          <<FALSE, <<3, 1, 2>> >>, <<FALSE, <<2, 6, 6>> >>} :
               PvpTurns(t, r1, r2)
    \/ \E t \in Tasks : PvpSettleRead(t)
    \/ \E t \in Tasks, fail \in {0, 3} : PvpSettleWrite(t, fail)

InitPvp ==
    /\ InitSeeded(MaxPvpOps, {{1, 2}}, 1000, {NoRow})
    /\ in_voice = {} /\ SlotFresh

SpecPvp == InitPvp /\ [][NextPvp]_vars

StepChinchiro ==
    \/ \E t \in Tasks : tasks[t].turn = "dealer" /\
           \E r1, r2, r3 \in Rolls : DealerTurn(t, r1, r2, r3)
    \/ \E t \in Tasks, r \in Rolls : PlayerRoll(t, r)
    \/ \E t \in Tasks, action \in {"confirm", "retry", "none"} : PlayerChoice(t, action)
    \/ \E t \in Tasks : ChinchiroSettle(t)
    \/ \E t \in Tasks, fail \in {0, 3} : SettlePveWrite(t, fail)

NextChinchiro ==
    \/ \E t \in Tasks, bet \in ChinchiroBets : ChinchiroStart(t, 1, bet)
    \/ StepChinchiro

\* a day on which the player, who has an account, has played some number of
\* times in played
InitGames(ops, played) ==
    /\ InitWith(ops) /\ in_voice = {}
    /\ DOMAIN accounts = {SYSTEM, 1}
    /\ slot_states = [u \in Users |-> NoRow]
    /\ slot_mode = "none"
    /\ spin = NoSpin
    /\ daily_play_counts \in
           {[k \in Users \X Games |-> IF k = <<1, "chinchiro">> THEN n ELSE 0] : n \in played}
    /\ lottery_tickets = <<>>
    /\ hand = NoHand

\* every game in flight goes on: the animation ends, the view answers or
\* times out, the database answers
InitChinchiro == InitGames(MaxChinchiroOps, {9})
SpecChinchiro == InitChinchiro /\ [][NextChinchiro]_vars /\ WF_vars(StepChinchiro)

\* the same with fewer games, for what is asked of one game's course
InitTurn == InitGames(MaxTurnOps, {8, 9})
SpecTurn == InitTurn /\ [][NextChinchiro]_vars /\ WF_vars(StepChinchiro)

\* get_roll_result on its own: the outcome of random.random() < 0.03 and the
\* three dice are drawn at the start, the step classifies them
RollDice ==
    /\ budget > 0 /\ budget' = budget - 1
    /\ hand' = [hand EXCEPT !.rolled = TRUE, !.res = GetRollResult(hand.off, hand.raw)]
    /\ DbUnchanged
    /\ UNCHANGED <<tasks, reply, outbox, nextBatch, voiceEnv, slotEnv,
                   daily_play_counts, lottery_tickets>>

InitDice ==
    /\ InitWith(1) /\ in_voice = {}
    /\ DOMAIN accounts = {SYSTEM}
    /\ slot_states = [u \in Users |-> NoRow]
    /\ slot_mode = "none"
    /\ spin = NoSpin
    /\ daily_play_counts = [k \in Users \X Games |-> 0]
    /\ lottery_tickets = <<>>
    /\ hand \in {[NoHand EXCEPT !.off = off, !.raw = raw] : off \in BOOLEAN, raw \in Dice}

SpecDice == InitDice /\ [][RollDice]_vars

NextVoiceLock ==
    \/ \E t \in Tasks, u \in {1, BotUser}, active \in BOOLEAN, e \in Elapsed :
           VoiceDispatch(t, u, active, e)
    \/ \E t \in Tasks, fail \in VoiceFails : VoiceBegin(t, fail)
    \/ \E t \in Tasks, fail \in VoiceFails : VoiceSettle(t, fail)

InitVoiceLock == InitWith(MaxVoiceLockOps) /\ in_voice \in SUBSET {1} /\ SlotFresh

SpecVoiceLock == InitVoiceLock /\ [][NextVoiceLock]_vars

----------------------------------------------------------------------------
(* Properties *)

Bal(acc, u) == IF u \in DOMAIN acc THEN acc[u].balance ELSE 0
Earned(acc, u) == IF u \in DOMAIN acc THEN acc[u].total_earned ELSE 0
OtherBalancesKept(S) == \A u \in AllIds \ S : Bal(accounts', u) = Bal(accounts, u)
LedgerKept == accounts' = accounts /\ transactions' = transactions

\* C1: in every reachable state, whatever the interleaving of transfers,
\* payroll runs, rollbacks, purchases, game settlements and admin removals,
\* every account's balance is >= 0
BalancesNonNegative == \A u \in DOMAIN accounts : accounts[u].balance >= 0

\* a debit that passed its balance pre-check was refused at the write: the
\* account no longer held the amount
OverdraftRefused ==
    /\ reply.result = "error"
    /\ reply.op \in {"omikuji", "SHOP"}
    /\ reply.a \in DOMAIN accounts
    /\ accounts[reply.a].balance < reply.amt

TransferCommits(t) ==
    tasks[t].op = "transfer" /\ tasks[t].pc = "write" /\ tasks'[t].pc = "notify"

\* C2: a successful transfer takes exactly amount from the sender, gives
\* exactly amount to the receiver (creating the receiver's account when it is
\* absent), keeps the sum of the two balances, touches no other balance, and
\* appends exactly one TRANSFER row with that sender, receiver and amount
TransferMovesExactly ==
    [][\A t \in Tasks : TransferCommits(t) =>
          LET s == tasks[t].a
              r == tasks[t].b
              amt == tasks[t].amt
          IN  /\ Bal(accounts', s) = Bal(accounts, s) - amt
              /\ r \in DOMAIN accounts'
              /\ Bal(accounts', r) = Bal(accounts, r) + amt
              /\ Bal(accounts', s) + Bal(accounts', r) = Bal(accounts, s) + Bal(accounts, r)
              /\ OtherBalancesKept({s, r})
              /\ transactions' =
                    transactions (+) SetToBag({Row(s, r, amt, "TRANSFER", NoBatch)})]_vars

\* sender had 1000, sent 300 to a member without an account: 700 / 300
TransferCreatedReceiver ==
    \E t \in Tasks :
        /\ tasks[t].op = "transfer" /\ tasks[t].pc = "notify" /\ tasks[t].amt = 300
        /\ accounts[tasks[t].a].balance = 700
        /\ accounts[tasks[t].b] = [balance |-> 300, total_earned |-> 0]
        /\ CopiesIn(Row(tasks[t].a, tasks[t].b, 300, "TRANSFER", NoBatch), transactions) = 1

\* C3: under concurrent debiting commands against one account, the total
\* debited from the account never exceeds what it held at the start plus what
\* was credited to it since (no lost-update overdraft)
DebitsWithinFunds == \A u \in AllIds : flow[u].out <= flow[u].start + flow[u].in

PendingDebit(t) == tasks[t].pc \in {"write", "omi_write", "slot_debit", "buy_write"}

\* two debits passed their pre-checks on the same balance; one has committed
\* and the other, still pending, asks for more than is left
ContendedDebit ==
    \E t \in Tasks :
        /\ PendingDebit(t)
        /\ tasks[t].rd >= tasks[t].amt
        /\ flow[tasks[t].a].out > 0
        /\ Bal(accounts, tasks[t].a) < tasks[t].amt

\* C4: the balance check and the debit of a transfer are one atomic step:
\* when the debit is written, the balance is still the one the check read
DebitSeesCheckedBalance ==
    [][\A t \in Tasks :
          (tasks[t].op = "transfer" /\ tasks[t].pc = "write" /\ tasks'[t].pc # "write")
              => Bal(accounts, tasks[t].a) = tasks[t].rd]_vars

InvalidRequest(s, r, amt) == amt <= 0 \/ amt > TRANSFER_CAP \/ r = s \/ r = BotUser

TransferAnswered == budget' = budget - 1 /\ reply'.op = "transfer"

\* C5: a transfer request with amount <= 0, amount above the cap, receiver =
\* sender or a bot receiver is always rejected; no balance changes, no
\* transaction row is added and nothing is left in flight
InvalidTransferRejected ==
    [][(TransferAnswered /\ InvalidRequest(reply'.a, reply'.b, reply'.amt)) =>
          /\ reply'.result \in {"InvalidAmount", "SelfTransfer", "BotReceiver"}
          /\ LedgerKept
          /\ tasks' = tasks]_vars

RejectedOverCap ==
    reply.op = "transfer" /\ reply.amt > TRANSFER_CAP /\ reply.result = "InvalidAmount"

\* C6: every step that changes an account balance also writes the
\* transactions table in the same commit
EveryBalanceChangeLogged == [][accounts' # accounts => transactions' # transactions]_vars

AddWouldSucceed ==
    \A u \in Humans, amt \in FundAmounts \ {0} : ManipulateTxn(DbNow, u, "add", amt, 0).ok

FundsAddStep == budget' = budget - 1 /\ reply'.op = "funds_add" /\ reply'.amt > 0

CreditEffects ==
    LET u == reply'.b
        amt == reply'.amt
    IN  IF reply'.result = "ok"
        THEN /\ u \in DOMAIN accounts'
             /\ Bal(accounts', u) = Bal(accounts, u) + amt
             /\ Earned(accounts', u) = Earned(accounts, u) + amt
             /\ OtherBalancesKept({u})
             /\ transactions' =
                   transactions (+) SetToBag({Row(SYSTEM, u, amt, "SYSTEM_ADD", NoBatch)})
        ELSE LedgerKept

\* C7: the admin credit of amount > 0 succeeds in every reachable state and,
\* in one commit, creates the account if absent, adds exactly amount to
\* balance and to total_earned and appends exactly one SYSTEM_ADD row from
\* the system account; only a storage failure stops it, and then nothing of
\* it is committed
CreditSucceeds == []AddWouldSucceed /\ [][FundsAddStep => CreditEffects]_vars

CreditCreatedAccount ==
    /\ reply.op = "funds_add" /\ reply.result = "ok"
    /\ reply.b \in DOMAIN accounts
    /\ accounts[reply.b] = [balance |-> reply.amt, total_earned |-> reply.amt]
    /\ CopiesIn(Row(SYSTEM, reply.b, reply.amt, "SYSTEM_ADD", NoBatch), transactions) = 1

EmittedAfterCommit ==
    \A m \in outbox' \ outbox :
        \E t \in Tasks :
            /\ tasks[t].op = "transfer" /\ tasks[t].pc \in {"notify", "log"}
            /\ m = Emit(m.kind, t)
            /\ Row(m.a, m.b, m.amt, "TRANSFER", NoBatch) \in BagToSet(transactions)

EmittingKeepsLedger ==
    \A t \in Tasks :
        (tasks[t].pc \in {"notify", "log"} /\ tasks'[t] # tasks[t]) => LedgerKept

\* C8: the receiver's DM and the audit-log embed of a transfer are emitted
\* only after the transfer has committed, and whatever happens while
\* emitting them leaves the committed balances and the TRANSFER row in place
SideEffectsAfterCommit == [][EmittedAfterCommit /\ EmittingKeepsLedger]_vars

\* the DM went out, the audit log failed, the transfer stays committed
LogFailedTransferKept ==
    /\ reply.op = "transfer" /\ reply.result = "error"
    /\ \A t \in Tasks : Idle(t)
    /\ outbox = {[kind |-> "dm", a |-> reply.a, b |-> reply.b, amt |-> reply.amt]}
    /\ Row(reply.a, reply.b, reply.amt, "TRANSFER", NoBatch) \in BagToSet(transactions)
    /\ Bal(accounts, reply.b) >= reply.amt

RollbackCommits(t) ==
    /\ tasks[t].op = "rollback" /\ tasks[t].pc = "rb_write"
    /\ tasks'[t].pc = "idle" /\ reply'.result = "ok"

\* C9: a payroll run followed by the rollback of its batch id, with no other
\* balance change in between, puts every account's balance back to its value
\* before the run (0 for an account the run created) and leaves no
\* transaction row tagged with the batch id
RollbackRestores ==
    [][\A t \in Tasks :
          (RollbackCommits(t) /\ tasks[t].bid = payroll.bid /\ payroll.clean) =>
              /\ \A u \in AllIds : Bal(accounts', u) = Bal(payroll.base, u)
              /\ \A r \in BagToSet(transactions') : r.batch # tasks[t].bid]_vars

RolledBack ==
    /\ reply.op = "rollback" /\ reply.result = "ok" /\ reply.bid = payroll.bid
    /\ \A u \in AllIds : Bal(accounts, u) = Bal(payroll.base, u)
    /\ \E u \in Humans : u \in DOMAIN accounts /\ u \notin DOMAIN payroll.base
    /\ \A r \in BagToSet(transactions) : r.batch # reply.bid

PayrollEnds(t) ==
    tasks[t].op = "payroll" /\ tasks[t].pc = "pay_write" /\ tasks'[t].pc = "idle"

SalaryRows(list, bid) ==
    {Row(SYSTEM, list[i].u, list[i].w, "SALARY", bid) : i \in 1..Len(list)}

PaidInFull(t) ==
    LET list == tasks[t].rows
    IN  /\ \A i \in 1..Len(list) :
              /\ Bal(accounts', list[i].u) = Bal(accounts, list[i].u) + list[i].w
              /\ Earned(accounts', list[i].u) = Earned(accounts, list[i].u) + list[i].w
        /\ transactions' = transactions (+) SetToBag(SalaryRows(list, tasks[t].bid))

BatchWhole ==
    \A b \in 1..nextBatch :
        LET have == {r \in BagToSet(transactions) : r.batch = b}
        IN  have = {} \/ have = SalaryRows(PayoutList(1), b)

\* C10: a payroll run commits every account credit and every SALARY row of
\* the run, or nothing at all, also when a statement fails part-way; the
\* SALARY rows of a batch id are never a proper part of the run
PayrollAllOrNothing ==
    []BatchWhole /\ [][\A t \in Tasks : PayrollEnds(t) => (PaidInFull(t) \/ LedgerKept)]_vars

\* a run whose bulk write failed part-way: reported as failed, nothing kept
PayrollFailedClean ==
    /\ reply.op = "payroll" /\ reply.result = "error"
    /\ \A r \in BagToSet(transactions) : r.batch # reply.bid
    /\ \A u \in AllIds : flow[u].in = 0

LaterRunCredited(t) ==
    \E r \in BagToSet(transactions) : r.type = "SALARY" /\ r.batch > tasks[t].bid

\* C11: payroll is single-flight: of two runs that are in flight at the same
\* time at most one credits the members; a run that commits its credits never
\* finds the SALARY rows of a run that was started after it
PayrollSingleFlight ==
    [][\A t \in Tasks :
          (PayrollEnds(t) /\ reply'.result = "ok") => ~LaterRunCredited(t)]_vars

WageOf(u, role) == IF role \in RolesOf(u) THEN RoleWages[role] ELSE 0
Due(u) == IF IsBot(u) THEN 0 ELSE WageOf(u, ROLE_A) + WageOf(u, ROLE_B)
Members == {MemberList[i] : i \in 1..Len(MemberList)}
Payees == {u \in Members : ~IsBot(u) /\ RolesOf(u) \cap DOMAIN RoleWages # {}}

NoSalaryRows(bid) == BagToSet(SelectSalaryRows(transactions, bid)) = {}
RollbackDeclined == budget' = budget - 1 /\ tasks' = tasks /\ reply'.op = "rollback"
RollbackTaken(t) == Idle(t) /\ tasks'[t].op = "rollback"

\* C13: a rollback asked for a batch id without SALARY rows (never issued, or
\* already rolled back) reports not-found, changes no balance and deletes no
\* row, and leaves nothing in flight; only a batch id that has SALARY rows
\* gets past the read
UnknownBatchIsNoOp ==
    [][/\ RollbackDeclined =>
              /\ reply'.result = "UnknownBatch"
              /\ NoSalaryRows(reply'.bid)
              /\ LedgerKept
       /\ \A t \in Tasks : RollbackTaken(t) => ~NoSalaryRows(tasks'[t].bid)]_vars

\* the second rollback of a batch that was paid out and rolled back
SecondRollbackNotFound ==
    /\ reply.op = "rollback" /\ reply.result = "UnknownBatch"
    /\ reply.bid = payroll.bid /\ payroll.bid # NoBatch
    /\ \A u \in AllIds : Bal(accounts, u) = Bal(payroll.base, u)
    /\ \A t \in Tasks : Idle(t)

\* C14: two rollbacks of one batch id that overlap in time are serialized:
\* each receiver is debited the recorded salary at most once, so a rollback
\* that commits a debit still finds the SALARY rows of its batch in the table
RollbackDebitsOnce ==
    [][\A t \in Tasks :
          (RollbackCommits(t) /\ accounts' # accounts) => ~NoSalaryRows(tasks[t].bid)]_vars

RollbackEnds(t) ==
    tasks[t].op = "rollback" /\ tasks[t].pc = "rb_write" /\ tasks'[t].pc = "idle"

SalarySpent(rows) == \E r \in BagToSet(rows) : Bal(accounts, r.receiver) < r.amount

\* C15: a rollback that reaches its write while some receiver's balance is
\* below the recorded salary amount fails as a whole: it reports an error, no
\* balance and no total_earned is changed and no transaction row is deleted
SpentSalaryStopsRollback ==
    [][\A t \in Tasks :
          (RollbackEnds(t) /\ SalarySpent(tasks[t].rows)) =>
              /\ reply'.result = "error"
              /\ LedgerKept]_vars

\* the rollback of a batch failed and the batch's rows are still there, one
\* of them for more than its receiver holds
RollbackRefused ==
    /\ reply.op = "rollback" /\ reply.result = "error"
    /\ SalarySpent(SelectSalaryRows(transactions, reply.bid))
    /\ \E u \in Humans : flow[u].out > 0

\* C16: total_earned of every account is monotonically non-decreasing: no
\* step of any operation, payroll rollback included, lowers it
TotalEarnedNeverDrops ==
    [][\A u \in DOMAIN accounts :
          Earned(accounts', u) >= accounts[u].total_earned]_vars

SettleStep(u) == budget' = budget - 1 /\ reply'.op = "voice_end" /\ reply'.b = u
SessionOpen(u) == voice_tracking[u] # NoRow
SessionSeconds(u) == clock' - voice_tracking[u]

RewardIsFloorOfRate ==
    [][\A u \in Users :
          (SettleStep(u) /\ SessionOpen(u) /\ SessionSeconds(u) >= 60
               /\ reply'.result = "ok") =>
              /\ Bal(accounts', u) = Bal(accounts, u) + (SessionSeconds(u) * reward_rate) \div 60
              /\ Earned(accounts', u) =
                     Earned(accounts, u) + (SessionSeconds(u) * reward_rate) \div 60]_vars

StartStep(u) == budget' = budget - 1 /\ reply'.op = "voice_start" /\ reply'.b = u

\* C19: a start event for a member who already has an open tracking entry
\* leaves that entry's join time unchanged, so that no accrued time is lost
StartKeepsOpenEntry ==
    [][\A u \in Users :
          (StartStep(u) /\ SessionOpen(u)) => voice_tracking'[u] = voice_tracking[u]]_vars

\* C20: settling for a member without a tracking entry is a no-op: no
\* balance, total_earned, voice_stats or transaction row changes, no entry
\* appears, and the handler ends without an error
SettleWithoutEntryIsNoOp ==
    [][\A u \in Users :
          (SettleStep(u) /\ ~SessionOpen(u)) =>
              /\ LedgerKept
              /\ voice_stats' = voice_stats
              /\ voice_tracking' = voice_tracking
              /\ reply'.result = "NoActiveSession"]_vars

\* a member who sat in the channel before the bot came up leaves it
LeftWithoutEntry ==
    /\ reply.op = "voice_end" /\ reply.result = "NoActiveSession"
    /\ reply.b \in Humans /\ reply.b \notin in_voice
    /\ clock > 0
    /\ voice_stats[reply.b] = NoRow

SecondsOf(vs, u) == IF vs[u] = NoRow THEN 0 ELSE vs[u]

\* C21: every settlement that closes a session adds the session's seconds
\* to the member's cumulative voice_stats in the commit that deletes the
\* tracking entry (and credits the reward when there is one), sessions
\* whose reward is 0 included
SettleAddsSeconds ==
    [][\A u \in Users :
          (SettleStep(u) /\ SessionOpen(u) /\ reply'.result = "ok") =>
              /\ voice_tracking'[u] = NoRow
              /\ Bal(accounts', u) = Bal(accounts, u) + reply'.amt
              /\ SecondsOf(voice_stats', u) =
                     SecondsOf(voice_stats, u) + SessionSeconds(u)]_vars

\* the entry read by the task that holds the member's lock
EntryRead(t) == tasks[t].rd
SettleCommit(t) ==
    /\ tasks[t].pc = "vc_write" /\ tasks'[t].pc = "idle"
    /\ reply'.op = "voice_end" /\ reply'.result = "ok"

\* C22: when handlers for the same member overlap, at most one of them is
\* between reading the member's tracking entry and writing the settlement,
\* and the settlement it commits closes the very entry it read: no open
\* session is settled twice
SettledAtMostOnce ==
    /\ [](\A s, t \in Tasks :
             (tasks[s].pc = "vc_write" /\ tasks[t].pc = "vc_write"
                  /\ tasks[s].b = tasks[t].b) => s = t)
    /\ [][\A t \in Tasks :
             SettleCommit(t) =>
                 /\ voice_tracking[tasks[t].b] = EntryRead(t)
                 /\ voice_tracking'[tasks[t].b] = NoRow]_vars

\* a settlement holds the member's lock while a second handler for the same
\* member waits for it
OverlapSerialised ==
    \E s, t \in Tasks :
        /\ tasks[s].pc = "vc_write" /\ tasks[t].pc = "vc_lock"
        /\ tasks[s].b = tasks[t].b

ReadyStep == budget' = budget - 1 /\ reply'.op = "ready"

\* C23: the start of the process settles every tracking entry whose member
\* is no longer in a reward channel, and leaves the entries of the members
\* who still are as they were
RecoverySettlesLingering ==
    [][ReadyStep =>
          \A u \in Users :
              SessionOpen(u) =>
                  IF u \in in_voice'
                  THEN voice_tracking'[u] = voice_tracking[u]
                  ELSE voice_tracking'[u] = NoRow]_vars

SpinStep(t) == tasks[t].pc = "slot_spin" /\ tasks'[t].pc = "slot_settle"

\* C25: a spin made while the player's stored counter is at or above the
\* ceiling of the mode the spin runs in comes out as SEVEN or DIAMOND with
\* its payout, never as MISS, whatever the random input of the draw
CeilingForcesHighTier ==
    [][\A t \in Tasks :
          (SpinStep(t) /\ SpinsOf(slot_states, tasks[t].a) >= ModeData(spin'.mode).ceiling) =>
              /\ spin'.ceiling
              /\ spin'.sym \in {"SEVEN", "DIAMOND"}
              /\ spin'.mult = MultOf(ModeData(spin'.mode).probs, spin'.sym)
              /\ spin'.mult > 0]_vars

\* the counter stood at the ceiling of mode "6" and the draw's input was one
\* that selects MISS: the spin came out high
CeilingHit ==
    /\ spin.mode = "6" /\ spin.spins = 400 /\ spin.rand = RandMax
    /\ spin.ceiling /\ spin.sym \in {"SEVEN", "DIAMOND"}
    /\ slot_states[spin.user] = 0

\* C26: after every spin the player's stored counter is 0 when the final
\* outcome pays (multiplier > 0) and the previous value + 1 when it does not
CounterFollowsPayout ==
    [][\A t \in Tasks :
          SpinStep(t) =>
              slot_states'[tasks[t].a] =
                  IF spin'.mult > 0 THEN 0 ELSE SpinsOf(slot_states, tasks[t].a) + 1]_vars

\* C27: the wager, the counter and the payout are committed together: in no
\* state has a spin won whose payout the player has not received
WinCreditedWithWager ==
    spin.mult > 0 => flow[spin.user].in >= spin.bet * spin.mult

DebitCommit(t) == tasks[t].pc = "slot_debit" /\ tasks'[t].pc = "slot_spin"
SettleDone(t) ==
    /\ tasks[t].pc = "slot_settle" /\ tasks'[t].pc = "idle"
    /\ reply'.op = "slot" /\ reply'.result = "ok"

\* C28: a spin goes ahead only if the player's balance covers the wager,
\* the wager is then debited, and a spin that completes credits exactly
\* wager * multiplier of its outcome: -bet + bet * m in all
SpinPaysWagerTimesMultiplier ==
    [][\A t \in Tasks :
          /\ DebitCommit(t) =>
                /\ Bal(accounts, tasks[t].a) >= tasks[t].amt
                /\ Bal(accounts', tasks[t].a) = Bal(accounts, tasks[t].a) - tasks[t].amt
          /\ (tasks[t].pc = "slot_debit" /\ tasks'[t].pc = "idle") => accounts' = accounts
          /\ SettleDone(t) =>
                Bal(accounts', tasks[t].a) =
                    Bal(accounts, tasks[t].a) + tasks[t].amt * tasks[t].m]_vars

\* a spin of 600 that came out DIAMOND has completed: 1000 - 600 + 60000
SpinWon ==
    /\ reply.op = "slot" /\ reply.result = "ok"
    /\ spin.sym = "DIAMOND" /\ spin.bet = 600
    /\ Bal(accounts, 1) = 60400

RECURSIVE WeightUpTo(_, _)
WeightUpTo(probs, i) == IF i = 0 THEN 0 ELSE WeightUpTo(probs, i - 1) + probs[i].weight

RECURSIVE ReturnUpTo(_, _)
ReturnUpTo(probs, i) ==
    IF i = 0 THEN 0 ELSE ReturnUpTo(probs, i - 1) + probs[i].weight * probs[i].mult

\* C29: in the configured mode the table returns less than is staked, the
\* sum of weight * multiplier being below the sum of the weights, and MISS
\* has the largest weight of the table
ReturnBelowStake ==
    LET probs == ModeData(slot_mode).probs
    IN  /\ ReturnUpTo(probs, Len(probs)) < WeightUpTo(probs, Len(probs))
        /\ \A i \in 1..Len(probs) :
               probs[i].name # "MISS" => probs[i].weight < probs[Len(probs)].weight

\* C30: the weights of the configured mode sum to 10000, the symbol drawn
\* for rand is the one whose span of cumulative weight holds rand, so that
\* no input is left to the default, and each symbol is drawn by exactly
\* weight-many of the inputs 1..10000
EveryInputDrawsItsSymbol ==
    LET probs == ModeData(slot_mode).probs
    IN  /\ WeightUpTo(probs, Len(probs)) = RandMax
        /\ spin.sym # "none" =>
               \E i \in 1..Len(probs) :
                   /\ probs[i].name = spin.sym
                   /\ WeightUpTo(probs, i - 1) < spin.rand
                   /\ spin.rand <= WeightUpTo(probs, i)
        /\ (spin.sym # "none" /\ spin.rand = RandMax) =>
               \A i \in 1..Len(probs) :
                   Cardinality({r \in 1..RandMax : PickFrom(probs, 1, 0, r) = probs[i].name})
                       = probs[i].weight

\* the last input of DIAMOND's span in mode "6"
LastDiamondDrawn ==
    slot_mode = "6" /\ spin.rand = 15 /\ spin.sym = "DIAMOND" /\ spin.mult = 100

\* C38: a confirmation view carries out at most one transfer: a press that
\* arrives after the first one, while that one is still awaiting storage,
\* starts no second handler, changes no balance and adds no transaction row
ViewTransfersOnce ==
    /\ [](\A t \in Tasks : tasks[t].op = "transfer" => tasks[t].m = 0)
    /\ [][(budget' = budget - 1 /\ reply'.result = "ignored") =>
             (LedgerKept /\ tasks' = tasks)]_vars

\* the second press came between the debit's balance check and its write
SecondPressIgnored ==
    /\ reply.op = "transfer" /\ reply.result = "ignored"
    /\ \E t \in Tasks : tasks[t].op = "transfer" /\ tasks[t].pc = "write"

\* C35: get_roll_result classifies a roll by one table: off-board -99, and
\* on the board 1-1-1 (111, x5), another triple (100 + face, x3), 4-5-6 (90, x2),
\* 1-2-3 (-1, x-2), a pair with odd die d (d, x1), no hand (0, x0); every roll
\* is in exactly one class, a higher class has the higher score, and the
\* result is the same for every order of the three dice
Faces(raw) == {raw[1], raw[2], raw[3]}
OddDie(raw) == CHOOSE d \in Faces(raw) : Cardinality({i \in 1..3 : raw[i] = d}) = 1
ClassOf(off, raw) ==
    {c \in 0..6 :
        \/ c = 0 /\ off
        \/ c = 1 /\ ~off /\ Faces(raw) = {1, 2, 3}
        \/ c = 2 /\ ~off /\ Cardinality(Faces(raw)) = 3
                 /\ Faces(raw) # {1, 2, 3} /\ Faces(raw) # {4, 5, 6}
        \/ c = 3 /\ ~off /\ Cardinality(Faces(raw)) = 2
        \/ c = 4 /\ ~off /\ Faces(raw) = {4, 5, 6}
        \/ c = 5 /\ ~off /\ Cardinality(Faces(raw)) = 1 /\ raw[1] # 1
        \/ c = 6 /\ ~off /\ raw = <<1, 1, 1>>}
TableRow(c, raw) ==
    CASE c = 0 -> <<-99, -1>>
      [] c = 1 -> <<-1, -2>>
      [] c = 2 -> <<0, 0>>
      [] c = 3 -> <<OddDie(raw), 1>>
      [] c = 4 -> <<90, 2>>
      [] c = 5 -> <<100 + raw[1], 3>>
      [] c = 6 -> <<111, 5>>
Orders(raw) ==
    {<<raw[i], raw[j], raw[k]>> : <<i, j, k>> \in
        {<<1, 2, 3>>, <<1, 3, 2>>, <<2, 1, 3>>, <<2, 3, 1>>, <<3, 1, 2>>, <<3, 2, 1>>}}
RollClassified ==
    hand.rolled =>
        /\ \E c \in 0..6 :
              /\ ClassOf(hand.off, hand.raw) = {c}
              /\ <<hand.res.score, hand.res.mult>> = TableRow(c, hand.raw)
              /\ \A off \in BOOLEAN, raw \in Dice :
                    \A c2 \in ClassOf(off, raw) :
                        c2 < c => GetRollResult(off, raw).score < hand.res.score
        /\ \A raw \in Orders(hand.raw) : GetRollResult(hand.off, raw) = hand.res
UnsortedPairRolled ==
    /\ hand.rolled /\ ~hand.off /\ hand.raw = <<6, 2, 6>>
    /\ hand.res.score = 2 /\ hand.res.mult = 1

\* C36: the player's turn makes at most 3 rolls; it goes on only after a roll
\* that is no hand or a pair, and before the third; it ends with best_res the
\* last roll, which is off the board, 4-5-6 or better, 1-2-3, confirmed by the
\* player, or the third; and a turn begun always ends
TurnEndsAtLastRoll ==
    /\ [](\A t \in Tasks :
            /\ tasks[t].tries <= 3
            /\ (tasks[t].turn \in {"roll", "ask"} /\ tasks[t].tries > 0) =>
                    (tasks[t].tries < 3 /\ tasks[t].roll.score \in 0..6)
            /\ (tasks[t].turn = "final" /\ tasks[t].tries > 0) =>
                    /\ tasks[t].best = tasks[t].roll
                    /\ \/ tasks[t].roll.score = -99
                       \/ tasks[t].roll.score >= 90
                       \/ tasks[t].roll.score = -1
                       \/ tasks[t].act = "confirm"
                       \/ tasks[t].tries = 3)
    /\ \A t \in Tasks : (tasks[t].turn = "roll") ~> (tasks[t].turn = "final")
ThirdRollEndsTurn ==
    \E t \in Tasks : /\ tasks[t].turn = "final" /\ tasks[t].tries = 3
                      /\ tasks[t].best.score = 0 /\ tasks[t].act = "none"

\* the step in which settle_pve commits the settlement of game t
PveSettled(t) ==
    /\ tasks[t].op = "chinchiro" /\ tasks[t].pc = "cc_write"
    /\ tasks'[t].pc = "idle" /\ reply'.result = "ok"

\* C33: a game against the house in which the player's final score equals
\* the dealer's is settled as a loss of the player, who had money left: the
\* balance is lower after the settlement than before
TieGoesToHouse ==
    [][\A t \in Tasks :
          (/\ PveSettled(t)
           /\ tasks[t].best.score = tasks[t].dealer.score
           /\ Bal(accounts, tasks[t].a) > 0)
          => Bal(accounts', tasks[t].a) < Bal(accounts, tasks[t].a)]_vars

\* C34: the settlement of a game the player ended with 1-2-3 lowers the
\* player's balance by 2 x bet, or by the whole balance where that is less,
\* and never below 0
OneTwoThreeCostsDouble ==
    [][\A t \in Tasks :
          (PveSettled(t) /\ tasks[t].best.score = -1)
          => LET before == Bal(accounts, tasks[t].a)
                 owed == 2 * tasks[t].amt
             IN  /\ Bal(accounts', tasks[t].a) =
                        before - (IF owed < before THEN owed ELSE before)
                 /\ Bal(accounts', tasks[t].a) >= 0]_vars

\* C39: a play of the slot that is completed, won or lost, raises the
\* player's count of the day by one, and no play is begun at a count of 10
EveryPlayCounted ==
    [][\A t \in Tasks :
          /\ (/\ tasks[t].op = "slot" /\ tasks[t].pc = "slot_settle"
              /\ tasks'[t].pc = "idle" /\ reply'.result = "ok")
             => daily_play_counts'[<<tasks[t].a, "slot">>] =
                    daily_play_counts[<<tasks[t].a, "slot">>] + 1
          /\ (tasks[t].pc = "idle" /\ tasks'[t].op = "slot")
             => daily_play_counts[<<tasks'[t].a, "slot">>] < 10]_vars

\* the steps in which a purchase of tickets and a draw commit
BuyCommitted(t) ==
    /\ tasks[t].op = "jackpot_buy" /\ tasks[t].pc = "jp_write"
    /\ tasks'[t].pc = "idle" /\ reply'.result = "ok"
DrawCommitted(t) ==
    /\ tasks[t].op = "jackpot_draw" /\ tasks[t].pc = "jp_settle"
    /\ tasks'[t].pc = "idle" /\ reply'.result = "ok"
DrawPaid(t) == DrawCommitted(t) /\ Len(tasks[t].winners) > 0
PlayersTotal(acc) == Bal(acc, 1) + Bal(acc, 2)

\* C31: on an existing pool every committed feed, of a ticket purchase or of
\* a lost game, whatever else is in flight, leaves the pool at its value
\* before plus the amount fed, and nothing but a feed or a paid draw changes it
FeedsAddUp ==
    [][pool # NoRow =>
          /\ \A t \in Tasks :
                /\ BuyCommitted(t) => pool' = pool + pool_addition * tasks[t].amt
                /\ (PveSettled(t) /\ tasks[t].m < 0) =>
                      LET loss == tasks[t].amt * (-tasks[t].m)
                          actual == IF loss < tasks[t].rd THEN loss ELSE tasks[t].rd
                      IN  pool' = pool + Percent(actual, 5)
          /\ pool' # pool =>
                \E t \in Tasks : BuyCommitted(t) \/ PveSettled(t) \/ DrawPaid(t)]_vars
TwoFeedsLanded ==
    /\ pool = 303000 + pool_addition + 15
    /\ reply.result = "ok" /\ reply.op \in {"jackpot_buy", "chinchiro"}

\* C32: a draw with a winning ticket credits prizes that sum to the value of
\* the pool at that moment and leaves the pool at seed_money; a draw without
\* a winner leaves the pool as it is
DrawEmptiesPool ==
    [][\A t \in Tasks :
          /\ DrawPaid(t) =>
                /\ PlayersTotal(accounts') - PlayersTotal(accounts) = StatusPool(pool)
                /\ StatusPool(pool') = seed_money
          /\ (DrawCommitted(t) /\ ~DrawPaid(t)) => pool' = pool]_vars

\* C40: but for a paid draw the pool value status reports never goes down;
\* a purchase of tickets raises it by what it feeds, whether or not the pool
\* row exists; and a paid draw divides a pool that holds every feed
\* committed before it
ReportedPoolNeverDrops ==
    [][\A t \in Tasks :
          /\ ~(\E s \in Tasks : DrawPaid(s)) => StatusPool(pool') >= StatusPool(pool)
          /\ BuyCommitted(t) =>
                StatusPool(pool') = StatusPool(pool) + pool_addition * tasks[t].amt
          /\ DrawPaid(t) => tasks[t].rd >= StatusPool(pool)]_vars

\* C37: a match between two players creates no money.  The stakes leave
\* the two balances together; a settled draw gives each stake back; a settled
\* win takes from the loser an extra of at most bet * (payout_mult - 1) and at
\* most the loser's balance, and credits the winner both stakes and the extra
\* less the fee of 5%, so that the two balances together end at their sum
\* before the stakes minus the fee; and the players never hold more than at
\* the start
PvpSettled(t) ==
    /\ tasks[t].op = "pvp" /\ tasks[t].pc \in {"pvp_settle", "pvp_write"}
    /\ tasks'[t].pc = "idle" /\ reply'.result = "ok"
PvpCreatesNoMoney ==
    /\ [](PlayersTotal(accounts) <= 2000)
    /\ [][\A t \in Tasks :
            LET p1 == tasks[t].a
                p2 == tasks[t].b
                bet == tasks[t].amt
                out == PvpOutcome(tasks[t].dealer, tasks[t].best)
                w == IF out.winner = 1 THEN p1 ELSE p2
                l == IF out.winner = 1 THEN p2 ELSE p1
                extra == Bal(accounts, l) - Bal(accounts', l)
            IN  /\ (tasks[t].pc = "pvp_stake" /\ tasks'[t].pc = "pvp_play") =>
                      PlayersTotal(accounts') = PlayersTotal(accounts) - 2 * bet
                /\ (PvpSettled(t) /\ out.winner = 0) =>
                      /\ Bal(accounts', p1) = Bal(accounts, p1) + bet
                      /\ Bal(accounts', p2) = Bal(accounts, p2) + bet
                /\ (PvpSettled(t) /\ out.winner # 0) =>
                      /\ extra >= 0 /\ extra <= bet * (out.payout_mult - 1)
                      /\ extra <= Bal(accounts, l)
                      /\ Bal(accounts', w) =
                            Bal(accounts, w) + 2 * bet + extra - Percent(2 * bet + extra, 5)
                      /\ PlayersTotal(accounts') =
                            PlayersTotal(accounts) + 2 * bet - Percent(2 * bet + extra, 5)]_vars
ExtraCappedAtBalance ==
    /\ reply.op = "pvp" /\ reply.result = "ok"
    /\ accounts[1].balance = 1925 /\ accounts[2].balance = 0

====
